---- MODULE Spec2Model ----
(***************************************************************************)
(* Model of the minecraft-server-manager supervisor: the status maps of    *)
(* lib/common, the Start/Stop/Kill/Recover operations of lib/server, the   *)
(* backup coordinator of lib/backup and the reconciliation loop of the     *)
(* manager service.  Every goroutine is a thread with a program counter;   *)
(* a critical section of a mutex is one step.                              *)
(***************************************************************************)
EXTENDS Integers, Sequences, FiniteSets, TLC

\* ---------------------------------------------------------------- bounds

\* Number of operations (commands, ticks) begun in one behaviour.
MaxOps == 3

\* ------------------------------------------------------------- constants

killServerTimeout == 15
baseServerPort == 25565

Servers == {"a", "b"}
Threads == {1, 2}

NoEntry == [Name |-> "none"]

VARIABLES
    ServerStatuses,   \* common.ServerStatuses: name -> entry or NoEntry
    BackupStatuses,   \* common.BackupStatuses: name -> "absent", "true", "false"
    running,          \* names of the screen sessions "<pid>.<name>.server"
    serverInfoFile,   \* content of the server.info file
    backupLockFile,   \* content of the backup.lock file
    properties,       \* server-port written in each server.properties
    clock,            \* operations begun so far; time.Now() reads it
    th,               \* the goroutines: thread -> frame
    crash,            \* the newest report in crash-reports: its age
    badReport,        \* a file in crash-reports whose name holds no time
    timers,           \* the goroutines of Recover that reset Recovering
    faults,           \* the subprocess and file failures that can occur
    conns,            \* the connections the two listeners have accepted
    lc,               \* the listeners: listening or closed
    process,          \* the manager process: up, or ended by a panic
    currentConfigurations, \* the extra scripts the manager keeps per server
    scriptsYaml,      \* the scripts.yaml file of each server directory
    now,              \* the time, in seconds
    executed          \* the scripts run so far: <<server, name, time>>

envVars == <<crash, badReport, timers, faults>>

monVars == <<conns, lc, process>>

scriptVars == <<currentConfigurations, scriptsYaml, now, executed>>

vars == <<ServerStatuses, BackupStatuses, running, serverInfoFile,
          backupLockFile, properties, clock, th, envVars, monVars,
          scriptVars>>

\* ------------------------------------------------------------ the frames

NoCount == [s \in Servers |-> 0]

IdleFrame ==
    [op |-> "idle", pc |-> "idle", err |-> "nil", args |-> <<>>,
     \* handleCrash
     tickRunning |-> {}, keys |-> {}, startServers |-> <<>>,
     \* Recover
     rsrv |-> "", rret |-> "top", srvRecoveryState |-> FALSE,
     \* Start
     servers |-> <<>>, i |-> 0, runningServers |-> {}, port |-> 0,
     isNew |-> FALSE, started |-> FALSE, ret |-> "top",
     \* Stop: one goroutine for each position of servers
     g |-> <<>>, stopped |-> FALSE,
     \* Create: the goroutines still to run and the one holding errsMu
     force |-> FALSE, dest |-> <<>>, pending |-> {}, cur |-> 0,
     backupMade |-> FALSE,
     errs |-> {}, online |-> [n |-> 0, err |-> FALSE],
     \* handleStatus
     changed |-> FALSE, polled |-> {},
     \* handleExtraScripts: the servers ExtraScripts returned for, and
     \* those it returned an error for
     visited |-> {}, failed |-> {},
     \* the lock and unlock calls still to come on the path taken, and the
     \* mutexes held
     events |-> <<>>, held |-> {},
     \* the maps and files when the operation began
     pre |-> <<>>,
     \* what the operation has done so far
     launched |-> NoCount, newBranch |-> NoCount, persisted |-> FALSE,
     written |-> {}, kills |-> NoCount, notified |-> NoCount, uploaded |-> NoCount,
     recovered |-> NoCount]

\* No goroutine of Recover waits to reset Recovering, and Recover has not
\* yet killed the server for its newest crash report.
NoTimer == [armed |-> 0, due |-> 0, recoveries |-> 0]

\* A goroutine of Stop.
StopGoroutine ==
    [pc |-> "g_check", counter |-> 0, currentServers |-> {},
     everGone |-> FALSE, kills |-> 0]

\* Argument lists of a command: one name, or two with repetitions allowed.
OneName == {<<s>> : s \in Servers}
ArgLists == OneName \cup {<<s, u>> : s \in Servers, u \in Servers}
StopLists == OneName \cup {<<"a", "b">>}

Registered(s) == ServerStatuses[s] # NoEntry

Free(t) == th[t].pc \in {"idle", "done"}

\* The return of the operation of a frame with error e: the locals of the
\* call are gone, what it was called with and what it did are kept.
Return(f, e) ==
    [IdleFrame EXCEPT !.op = f.op, !.pc = "done", !.err = e,
                      !.args = f.args, !.servers = f.args,
                      !.runningServers = f.runningServers,
                      !.recovered = f.recovered,
                      !.force = f.force, !.dest = f.dest, !.g = f.g,
                      !.pre = f.pre,
                      !.launched = f.launched, !.newBranch = f.newBranch,
                      !.persisted = f.persisted, !.written = f.written,
                      !.polled = f.polled,
                      !.visited = f.visited, !.failed = f.failed,
                      !.kills = f.kills,
                      !.notified = f.notified, !.uploaded = f.uploaded]

\* The state an operation finds when it begins.
PreState ==
    [ServerStatuses |-> ServerStatuses, BackupStatuses |-> BackupStatuses,
     serverInfoFile |-> serverInfoFile, backupLockFile |-> backupLockFile,
     running |-> running]

\* The frame of an operation that begins.
NewFrame(op, pc, args) ==
    [IdleFrame EXCEPT !.op = op, !.pc = pc, !.args = args,
                      !.servers = args, !.pre = PreState]

\* The results of a subprocess or file operation: it can fail only if the
\* environment has that fault.
Outcomes(fault) == IF fault \in faults THEN BOOLEAN ELSE {TRUE}

AllFaults ==
    {"setPort", "launch", "send", "kill", "tempfile", "archive", "upload",
     "read", "accept"}

\* ------------------------------------------------------- session driver

\* GetRunningServers: the names of the sessions "screen -ls" lists.
GetRunningServers == running

\* ------------------------------------------------------------ persistence

\* A status file is the JSON object json.Marshal writes for a map: a set of
\* members <<key, value>>, one for each key of the map.  A file that does
\* not exist reads as the object without members.
NoFile == {}

\* time.Time in JSON: the instant as an RFC 3339 text.
RFC3339Nano(time) == <<"RFC3339", time>>

ParseRFC3339(text) == text[2]

\* The member names of a ServerStatus: the json tags of the struct, and the
\* name of the field where it has no tag.
StatusMembers == {"name", "should-run", "port", "StartTime"}

\* A ServerStatus that is written without its start time.
MarshalStatusUntimed(status) ==
    [k \in StatusMembers \ {"StartTime"} |->
        CASE k = "name" -> status.Name
          [] k = "should-run" -> status.ShouldRun
          [] OTHER -> status.Port]

\* json.Marshal of a ServerStatus: the fields the struct declares.
MarshalStatus(status) ==
    [k \in StatusMembers |->
        CASE k = "name" -> status.Name
          [] k = "should-run" -> status.ShouldRun
          [] k = "port" -> status.Port
          [] OTHER -> RFC3339Nano(status.StartTime)]

\* A member of a JSON object, or the zero value of the field when the
\* object has no such member.
Member(object, k, zero) == IF k \in DOMAIN object THEN object[k] ELSE zero

\* json.Unmarshal into a new ServerStatus: a field without a member keeps
\* its zero value, and so does what the file does not hold.
UnmarshalStatus(object) ==
    [Name |-> Member(object, "name", ""),
     Port |-> Member(object, "port", 0),
     Recovering |-> FALSE,
     ShouldRun |-> Member(object, "should-run", FALSE),
     StartTime |-> ParseRFC3339(Member(object, "StartTime", RFC3339Nano(0)))]

\* updateStatus of the server map: the file holds the marshalled map.
UpdateServerStatus ==
    {<<s, MarshalStatus(ServerStatuses[s])>> :
        s \in {u \in Servers : Registered(u)}}

\* updateStatus of the backup map: a member true or false for each key.
UpdateBackupStatus ==
    {<<s, BackupStatuses[s]>> :
        s \in {u \in Servers : BackupStatuses[u] # "absent"}}

\* The keys of a JSON object.
Keys(file) == {m[1] : m \in file}

\* The value of the member with key s.
ValueOf(file, s) == (CHOOSE m \in file : m[1] = s)[2]

\* initStatus for the server map: json.Unmarshal puts an entry into the map
\* for every member of the file and leaves the other keys of the map alone.
initServerStatus(statusMap, file) ==
    [s \in Servers |->
        IF s \in Keys(file) THEN UnmarshalStatus(ValueOf(file, s))
        ELSE statusMap[s]]

\* initStatus for the backup map.
initBackupStatus(statusMap, file) ==
    [s \in Servers |->
        IF s \in Keys(file) THEN ValueOf(file, s) ELSE statusMap[s]]

\* The files written from the maps as they are now: a load changes the maps.
WrittenSoFar(f) == IF f.op = "InitStatuses" THEN {} ELSE f.written

\* A call of UpdateServerStatus.
WriteServerStatus(t) ==
    /\ Free(t)
    /\ clock <= MaxOps
    /\ clock' = clock + 1
    /\ serverInfoFile' = UpdateServerStatus
    /\ th' = [th EXCEPT ![t] =
          Return([NewFrame("UpdateServerStatus", "done", <<>>) EXCEPT
                     !.written = WrittenSoFar(th[t]) \cup {"server.info"}],
                 "nil")]
    /\ UNCHANGED <<ServerStatuses, BackupStatuses, running, backupLockFile,
                   properties>>
    /\ UNCHANGED <<envVars, monVars, scriptVars>>

\* A call of UpdateBackupStatus.
WriteBackupStatus(t) ==
    /\ Free(t)
    /\ clock <= MaxOps
    /\ clock' = clock + 1
    /\ backupLockFile' = UpdateBackupStatus
    /\ th' = [th EXCEPT ![t] =
          Return([NewFrame("UpdateBackupStatus", "done", <<>>) EXCEPT
                     !.written = WrittenSoFar(th[t]) \cup {"backup.lock"}],
                 "nil")]
    /\ UNCHANGED <<ServerStatuses, BackupStatuses, running, serverInfoFile,
                   properties>>
    /\ UNCHANGED <<envVars, monVars, scriptVars>>

\* InitStatuses in a process that begins: both files are loaded into the
\* empty maps.
InitStatuses(t) ==
    /\ Free(t)
    /\ clock <= MaxOps
    /\ clock' = clock + 1
    /\ ServerStatuses' =
          initServerStatus([s \in Servers |-> NoEntry], serverInfoFile)
    /\ BackupStatuses' =
          initBackupStatus([s \in Servers |-> "absent"], backupLockFile)
    /\ th' = [th EXCEPT ![t] =
          Return([NewFrame("InitStatuses", "done", <<>>) EXCEPT
                     !.written = th[t].written], "nil")]
    /\ UNCHANGED <<running, serverInfoFile, backupLockFile, properties>>
    /\ UNCHANGED <<envVars, monVars, scriptVars>>

\* ------------------------------------------------------------------ Start

\* A scan that never looks at the ports in use.
FirstValidUnchecked(p) == p

\* The first port >= p no entry of the map holds (isValid and the loop).
RECURSIVE FirstValid(_)
FirstValid(p) ==
    IF \A s \in Servers : ~Registered(s) \/ ServerStatuses[s].Port # p
    THEN p
    ELSE FirstValid(p + 1)

\* The return of Recover to its caller: a command, or handleCrash, which
\* returns the error at once and goes on with its loop otherwise.
RecoverReturn(f, e) ==
    IF f.rret = "tick" /\ e = "nil"
    THEN [f EXCEPT !.pc = "tick_loop"]
    ELSE Return(f, e)

\* The return of Start to its caller: a command, Recover ("return
\* Start(ctx, server)") or handleCrash ("return server.Start(...)").
StartReturn(f, e) ==
    CASE f.ret = "top" -> Return(f, e)
      [] f.ret = "recover" -> RecoverReturn(f, e)
      [] f.ret = "tick" -> Return(f, e)

\* A Start that writes the status file whatever it did.
PersistAlways(started) == TRUE

\* Whether Start writes the status file after its loop.
PersistAfterStart(started) == started

BeginStart(t, lists) ==
    /\ Free(t)
    /\ clock <= MaxOps
    /\ clock' = clock + 1
    /\ \E args \in lists :
          th' = [th EXCEPT ![t] = NewFrame("Start", "start_list", args)]
    /\ UNCHANGED <<ServerStatuses, BackupStatuses, running, serverInfoFile,
                   backupLockFile, properties>>
    /\ UNCHANGED <<envVars, monVars, scriptVars>>

\* runningServers, err := GetRunningServers(ctx)
StartList(t) ==
    /\ th[t].pc = "start_list"
    /\ th' = [th EXCEPT ![t].runningServers = GetRunningServers,
                        ![t].i = 1, ![t].started = FALSE,
                        ![t].pc = "start_loop"]
    /\ UNCHANGED <<ServerStatuses, BackupStatuses, running, serverInfoFile,
                   backupLockFile, properties, clock>>
    /\ UNCHANGED <<envVars, monVars, scriptVars>>

\* The head of the loop over servers: a running server is skipped.
StartLoop(t) ==
    /\ th[t].pc = "start_loop"
    /\ th[t].i <= Len(th[t].servers)
    /\ LET f == th[t]
           server == f.servers[f.i]
       IN  th' = [th EXCEPT ![t] =
                    IF server \in f.runningServers
                    THEN [f EXCEPT !.i = f.i + 1]
                    ELSE [f EXCEPT !.started = TRUE, !.pc = "dp_read"]]
    /\ UNCHANGED <<ServerStatuses, BackupStatuses, running, serverInfoFile,
                   backupLockFile, properties, clock>>
    /\ UNCHANGED <<envVars, monVars, scriptVars>>

\* determinePort, the lookup made before the lock is taken.
DeterminePortRead(t) ==
    /\ th[t].pc = "dp_read"
    /\ LET f == th[t]
           server == f.servers[f.i]
       IN  th' = [th EXCEPT ![t] =
                    IF Registered(server)
                    THEN [f EXCEPT !.port = ServerStatuses[server].Port,
                                   !.isNew = FALSE, !.pc = "start_upsert"]
                    ELSE [f EXCEPT !.pc = "dp_scan"]]
    /\ UNCHANGED <<ServerStatuses, BackupStatuses, running, serverInfoFile,
                   backupLockFile, properties, clock>>
    /\ UNCHANGED <<envVars, monVars, scriptVars>>

\* determinePort, the scan for the first available port under the lock.
DeterminePortScan(t) ==
    /\ th[t].pc = "dp_scan"
    /\ th' = [th EXCEPT ![t].port = FirstValid(baseServerPort),
                        ![t].isNew = TRUE, ![t].pc = "start_upsert"]
    /\ UNCHANGED <<ServerStatuses, BackupStatuses, running, serverInfoFile,
                   backupLockFile, properties, clock>>
    /\ UNCHANGED <<envVars, monVars, scriptVars>>

\* The critical section of Start: setPort and the new entry when the
\* server is new, then ShouldRun and StartTime.
StartUpsert(t) ==
    /\ th[t].pc = "start_upsert"
    /\ LET f == th[t]
           server == f.servers[f.i]
       IN  \E setPortOK \in Outcomes("setPort") :
             IF f.isNew /\ ~setPortOK
             THEN /\ th' = [th EXCEPT ![t] = StartReturn(f, "setPort")]
                  /\ UNCHANGED <<ServerStatuses, properties>>
             ELSE /\ (~f.isNew => setPortOK)
                  /\ properties' = IF f.isNew
                                    THEN [properties EXCEPT ![server] = f.port]
                                    ELSE properties
                  /\ ServerStatuses' = [ServerStatuses EXCEPT ![server] =
                        [Name |-> server,
                         Port |-> IF f.isNew THEN f.port
                                  ELSE ServerStatuses[server].Port,
                         Recovering |-> IF f.isNew THEN FALSE
                                        ELSE ServerStatuses[server].Recovering,
                         ShouldRun |-> TRUE,
                         StartTime |-> clock]]
                  /\ th' = [th EXCEPT ![t] =
                        [f EXCEPT !.pc = "start_launch",
                                  !.newBranch[server] =
                                      IF f.isNew THEN @ + 1 ELSE @]]
    /\ UNCHANGED <<BackupStatuses, running, serverInfoFile, backupLockFile,
                   clock>>
    /\ UNCHANGED <<envVars, monVars, scriptVars>>

\* screen -S <server>.server -d -m ./run.sh
StartLaunch(t) ==
    /\ th[t].pc = "start_launch"
    /\ LET f == th[t]
           server == f.servers[f.i]
       IN  \E launchOK \in Outcomes("launch") :
             IF launchOK
             THEN /\ running' = running \cup {server}
                  /\ th' = [th EXCEPT ![t] =
                        [f EXCEPT !.launched[server] = @ + 1,
                                  !.i = f.i + 1, !.pc = "start_loop"]]
             ELSE /\ running' = running
                  /\ th' = [th EXCEPT ![t] = StartReturn(f, "launch")]
    /\ UNCHANGED <<ServerStatuses, BackupStatuses, serverInfoFile,
                   backupLockFile, properties, clock>>
    /\ UNCHANGED <<envVars, monVars, scriptVars>>

\* After the loop: the status file is written only if something started.
StartUpdate(t) ==
    /\ th[t].pc = "start_loop"
    /\ th[t].i > Len(th[t].servers)
    /\ LET f == th[t]
       IN  IF PersistAfterStart(f.started)
           THEN /\ serverInfoFile' = UpdateServerStatus
                /\ th' = [th EXCEPT ![t] =
                      StartReturn([f EXCEPT !.persisted = TRUE], "nil")]
           ELSE /\ serverInfoFile' = serverInfoFile
                /\ th' = [th EXCEPT ![t] = StartReturn(f, "nil")]
    /\ UNCHANGED <<ServerStatuses, BackupStatuses, running, backupLockFile,
                   properties, clock>>
    /\ UNCHANGED <<envVars, monVars, scriptVars>>

StartStep(t) ==
    \/ StartList(t)
    \/ StartLoop(t)
    \/ DeterminePortRead(t)
    \/ DeterminePortScan(t)
    \/ StartUpsert(t)
    \/ StartLaunch(t)
    \/ StartUpdate(t)

\* ------------------------------------------------------------------- Kill

\* A Kill that clears ShouldRun for every caller.
KillIntentAlways(recover, server) ==
    [ServerStatuses EXCEPT ![server].ShouldRun = FALSE]

\* Kill, its critical section: an operator kill clears ShouldRun.
KillIntent(recover, server) ==
    IF recover
    THEN ServerStatuses
    ELSE [ServerStatuses EXCEPT ![server].ShouldRun = FALSE]

\* Kill, screen -S <server> -X quit: the sessions left when it succeeds.
KillQuit(ok, server) == IF ok THEN running \ {server} ELSE running

\* ---------------------------------------------------------------- Recover

\* The rest of the loop over the reports once the newest report is passed:
\* a file name that holds no time ends Recover with the parse error.
RecoverRest(f) ==
    RecoverReturn(f, IF badReport[f.rsrv] = "last" THEN "parse" ELSE "nil")

BeginRecover(t, servers, bounded) ==
    /\ Free(t)
    /\ IF bounded
       THEN clock <= MaxOps /\ clock' = clock + 1
       ELSE clock' = clock
    /\ \E s \in servers :
          /\ Registered(s)
          /\ th' = [th EXCEPT ![t] =
                [NewFrame("Recover", "rec_scan", <<s>>) EXCEPT !.rsrv = s]]
    /\ UNCHANGED <<ServerStatuses, BackupStatuses, running, serverInfoFile,
                   backupLockFile, properties>>
    /\ UNCHANGED <<envVars, monVars, scriptVars>>

\* ReadDir and the loop up to the newest report: the time of the file name
\* is parsed, then Recovering is read in a critical section of its own.
RecoverScan(t) ==
    /\ th[t].pc = "rec_scan"
    /\ LET f == th[t]
       IN  th' = [th EXCEPT ![t] =
                CASE badReport[f.rsrv] = "first" -> RecoverReturn(f, "parse")
                  [] OTHER ->
                     IF crash[f.rsrv] = "none"
                     THEN RecoverRest(f)
                     ELSE [f EXCEPT !.srvRecoveryState =
                                        ServerStatuses[f.rsrv].Recovering,
                                    !.pc = "rec_decide"]]
    /\ UNCHANGED <<ServerStatuses, BackupStatuses, running, serverInfoFile,
                   backupLockFile, properties, clock>>
    /\ UNCHANGED <<envVars, monVars, scriptVars>>

\* A Recover that does not look at Recovering.
ShouldRecoverUnmarked(age, srvRecoveryState) == age = "fresh"

\* Whether Recover recovers: the crash is recent and the value of
\* Recovering it read was false.
ShouldRecover(age, srvRecoveryState) == age = "fresh" /\ ~srvRecoveryState

\* The test on the report, and the second critical section, which sets
\* Recovering.
RecoverDecide(t) ==
    /\ th[t].pc = "rec_decide"
    /\ LET f == th[t]
       IN  IF ShouldRecover(crash[f.rsrv], f.srvRecoveryState)
           THEN /\ ServerStatuses' =
                      [ServerStatuses EXCEPT ![f.rsrv].Recovering = TRUE]
                /\ th' = [th EXCEPT ![t] =
                      [f EXCEPT !.recovered[f.rsrv] = @ + 1,
                                !.pc = "rec_kill"]]
           ELSE /\ ServerStatuses' = ServerStatuses
                /\ th' = [th EXCEPT ![t] = RecoverRest(f)]
    /\ UNCHANGED <<BackupStatuses, running, serverInfoFile, backupLockFile,
                   properties, clock>>
    /\ UNCHANGED <<envVars, monVars, scriptVars>>

\* Kill(ctx, true, server), then the goroutine that resets Recovering
\* after recoveryTime, then the call of Start(ctx, server).
RecoverKill(t) ==
    /\ th[t].pc = "rec_kill"
    /\ LET f == th[t]
           server == f.rsrv
       IN  /\ ServerStatuses' = KillIntent(TRUE, server)
           /\ \E ok \in Outcomes("kill") :
                 /\ running' = KillQuit(ok, server)
                 /\ IF ok
                    THEN /\ timers' = [timers EXCEPT ![server] =
                               IF crash[server] = "fresh"
                               THEN [@ EXCEPT !.armed = @ + 1,
                                              !.recoveries = @ + 1]
                               ELSE [@ EXCEPT !.due = @ + 1,
                                              !.recoveries = @ + 1]]
                         /\ th' = [th EXCEPT ![t] =
                               [f EXCEPT !.kills[server] = @ + 1,
                                         !.servers = <<server>>,
                                         !.ret = "recover",
                                         !.pc = "start_list"]]
                    ELSE /\ timers' = timers
                         /\ th' = [th EXCEPT ![t] = RecoverReturn(f, "kill")]
    /\ UNCHANGED <<BackupStatuses, serverInfoFile, backupLockFile,
                   properties, clock, crash, badReport, faults,
                   monVars, scriptVars>>

\* The steps of Recover, and of the Start it ends with: the server is
\* registered, so determinePort returns at its lookup.
StartKnownStep(t) ==
    \/ StartList(t)
    \/ StartLoop(t)
    \/ DeterminePortRead(t)
    \/ StartUpsert(t)
    \/ StartLaunch(t)
    \/ StartUpdate(t)

RecoverStep(t) ==
    \/ RecoverScan(t)
    \/ RecoverDecide(t)
    \/ RecoverKill(t)
    \/ StartKnownStep(t)

\* The goroutine of Recover wakes up after recoveryTime and clears
\* Recovering.
ResetRecovering(s) ==
    /\ timers[s].due > 0
    /\ timers' = [timers EXCEPT ![s].due = @ - 1]
    /\ ServerStatuses' = [ServerStatuses EXCEPT ![s].Recovering = FALSE]
    /\ UNCHANGED <<BackupStatuses, running, serverInfoFile, backupLockFile,
                   properties, clock, th, crash, badReport, faults,
                   monVars, scriptVars>>

\* ------------------------------------------------------------ handleCrash

BeginTick(t, bounded) ==
    /\ Free(t)
    /\ IF bounded
       THEN clock <= MaxOps /\ clock' = clock + 1
       ELSE clock' = clock
    /\ th' = [th EXCEPT ![t] = NewFrame("handleCrash", "tick_list", <<>>)]
    /\ UNCHANGED <<ServerStatuses, BackupStatuses, running, serverInfoFile,
                   backupLockFile, properties>>
    /\ UNCHANGED <<envVars, monVars, scriptVars>>

\* runningServers, err := server.GetRunningServers(ctx), and the range over
\* the map begins.
TickList(t) ==
    /\ th[t].pc = "tick_list"
    /\ th' = [th EXCEPT ![t].tickRunning = GetRunningServers,
                        ![t].keys = {s \in Servers : Registered(s)},
                        ![t].startServers = <<>>,
                        ![t].pc = "tick_loop"]
    /\ UNCHANGED <<ServerStatuses, BackupStatuses, running, serverInfoFile,
                   backupLockFile, properties, clock>>
    /\ UNCHANGED <<envVars, monVars, scriptVars>>

\* One entry of the range, in the order the map gives: the server is
\* queued if it should run and was not listed, then Recover is called.
TickLoop(t) ==
    /\ th[t].pc = "tick_loop"
    /\ \E k \in th[t].keys :
          LET f == th[t]
              v == ServerStatuses[k]
          IN  th' = [th EXCEPT ![t] =
                [f EXCEPT !.startServers =
                              IF v.ShouldRun /\ k \notin f.tickRunning
                              THEN Append(f.startServers, k)
                              ELSE f.startServers,
                          !.keys = f.keys \ {k},
                          !.rsrv = k, !.rret = "tick",
                          !.pc = "rec_scan"]]
    /\ UNCHANGED <<ServerStatuses, BackupStatuses, running, serverInfoFile,
                   backupLockFile, properties, clock>>
    /\ UNCHANGED <<envVars, monVars, scriptVars>>

\* return server.Start(ctx, startServers...)
TickStart(t) ==
    /\ th[t].pc = "tick_loop"
    /\ th[t].keys = {}
    /\ th' = [th EXCEPT ![t].servers = th[t].startServers,
                        ![t].ret = "tick",
                        ![t].pc = "start_list"]
    /\ UNCHANGED <<ServerStatuses, BackupStatuses, running, serverInfoFile,
                   backupLockFile, properties, clock>>
    /\ UNCHANGED <<envVars, monVars, scriptVars>>

TickStep(t) ==
    \/ TickList(t)
    \/ TickLoop(t)
    \/ TickStart(t)
    \/ RecoverStep(t)

\* ------------------------------------------------------------------- Stop

BeginStop(t, lists) ==
    /\ Free(t)
    /\ clock <= MaxOps
    /\ clock' = clock + 1
    /\ \E args \in lists :
          th' = [th EXCEPT ![t] = NewFrame("Stop", "stop_list", args)]
    /\ UNCHANGED <<ServerStatuses, BackupStatuses, running, serverInfoFile,
                   backupLockFile, properties>>
    /\ UNCHANGED <<envVars, monVars, scriptVars>>

\* runningServers, err := GetRunningServers(ctx), then one goroutine is
\* started for every listed server.
StopList(t) ==
    /\ th[t].pc = "stop_list"
    /\ th' = [th EXCEPT ![t].runningServers = GetRunningServers,
                        ![t].g = [j \in 1..Len(th[t].servers) |-> StopGoroutine],
                        ![t].pc = "stop_wait"]
    /\ UNCHANGED <<ServerStatuses, BackupStatuses, running, serverInfoFile,
                   backupLockFile, properties, clock>>
    /\ UNCHANGED <<envVars, monVars, scriptVars>>

\* A server that is not running is left alone; otherwise the intent is
\* cleared: ShouldRun = false, StartTime = time.Time{}.
StopIntent(t, j) ==
    /\ th[t].pc = "stop_wait"
    /\ j \in DOMAIN th[t].g
    /\ th[t].g[j].pc = "g_check"
    /\ LET f == th[t]
           server == f.servers[j]
       IN  IF server \notin f.runningServers
           THEN /\ th' = [th EXCEPT ![t].g[j].pc = "skipped"]
                /\ UNCHANGED ServerStatuses
           ELSE /\ ServerStatuses' = [ServerStatuses EXCEPT
                       ![server].ShouldRun = FALSE, ![server].StartTime = 0]
                /\ th' = [th EXCEPT ![t].stopped = TRUE,
                                    ![t].g[j].pc = "g_send"]
    /\ UNCHANGED <<BackupStatuses, running, serverInfoFile, backupLockFile,
                   properties, clock>>
    /\ UNCHANGED <<envVars, monVars, scriptVars>>

\* screen -S <server> -X stuff "stop^M", then the first look at the sessions.
StopSend(t, j) ==
    /\ th[t].pc = "stop_wait"
    /\ j \in DOMAIN th[t].g
    /\ th[t].g[j].pc = "g_send"
    /\ LET server == th[t].servers[j]
       IN  \E sendOK \in Outcomes("send") :
             th' = [th EXCEPT ![t].g[j] =
                      IF sendOK
                      THEN [@ EXCEPT !.pc = "g_poll", !.counter = 0,
                                     !.currentServers = GetRunningServers \cap {server},
                                     !.everGone = server \notin GetRunningServers]
                      ELSE [@ EXCEPT !.pc = "sendFailed"]]
    /\ UNCHANGED <<ServerStatuses, BackupStatuses, running, serverInfoFile,
                   backupLockFile, properties, clock>>
    /\ UNCHANGED <<envVars, monVars, scriptVars>>

\* One turn of the polling loop: sleep a second, count, look again.
StopPoll(t, j) ==
    /\ th[t].pc = "stop_wait"
    /\ j \in DOMAIN th[t].g
    /\ th[t].g[j].pc = "g_poll"
    /\ LET server == th[t].servers[j]
           gr == th[t].g[j]
       IN  /\ server \in gr.currentServers
           /\ gr.counter < killServerTimeout
           /\ th' = [th EXCEPT ![t].g[j] =
                      [gr EXCEPT !.counter = gr.counter + 1,
                                 !.currentServers = GetRunningServers \cap {server},
                                 !.everGone = gr.everGone
                                     \/ server \notin GetRunningServers]]
    /\ UNCHANGED <<ServerStatuses, BackupStatuses, running, serverInfoFile,
                   backupLockFile, properties, clock>>
    /\ UNCHANGED <<envVars, monVars, scriptVars>>

\* A Stop that force-kills whenever the loop is left.
MustKillAlways(counter) == counter >= 0

\* The server must be force-killed once the loop is left.
MustKill(counter) == counter >= killServerTimeout

\* The loop is left: the server is gone or the timeout has run out.
StopPollEnd(t, j) ==
    /\ th[t].pc = "stop_wait"
    /\ j \in DOMAIN th[t].g
    /\ th[t].g[j].pc = "g_poll"
    /\ LET server == th[t].servers[j]
           gr == th[t].g[j]
       IN  /\ ~(server \in gr.currentServers /\ gr.counter < killServerTimeout)
           /\ th' = [th EXCEPT ![t].g[j].pc =
                      IF MustKill(gr.counter) THEN "g_kill" ELSE "g_backup"]
    /\ UNCHANGED <<ServerStatuses, BackupStatuses, running, serverInfoFile,
                   backupLockFile, properties, clock>>
    /\ UNCHANGED <<envVars, monVars, scriptVars>>

\* Kill(ctx, false, server), its critical section.
StopKillIntent(t, j) ==
    /\ th[t].pc = "stop_wait"
    /\ j \in DOMAIN th[t].g
    /\ th[t].g[j].pc = "g_kill"
    /\ ServerStatuses' = KillIntent(FALSE, th[t].servers[j])
    /\ th' = [th EXCEPT ![t].g[j].pc = "g_quit"]
    /\ UNCHANGED <<BackupStatuses, running, serverInfoFile, backupLockFile,
                   properties, clock>>
    /\ UNCHANGED <<envVars, monVars, scriptVars>>

\* Kill(ctx, false, server), the quit command; Stop drops its error.
StopKillQuit(t, j) ==
    /\ th[t].pc = "stop_wait"
    /\ j \in DOMAIN th[t].g
    /\ th[t].g[j].pc = "g_quit"
    /\ LET server == th[t].servers[j]
       IN  /\ \E ok \in Outcomes("kill") : running' = KillQuit(ok, server)
           /\ th' = [th EXCEPT ![t].g[j].pc = "g_backup",
                               ![t].g[j].kills = @ + 1,
                               ![t].kills[server] = @ + 1]
    /\ UNCHANGED <<ServerStatuses, BackupStatuses, serverInfoFile,
                   backupLockFile, properties, clock>>
    /\ UNCHANGED <<envVars, monVars, scriptVars>>

\* A Stop that leaves the server ineligible.
StopEligibilityOff == "false"

\* The value Stop stores as the backup eligibility of a stopped server.
StopEligibility == "true"

\* Enable backups one last time.
StopEnableBackup(t, j) ==
    /\ th[t].pc = "stop_wait"
    /\ j \in DOMAIN th[t].g
    /\ th[t].g[j].pc = "g_backup"
    /\ BackupStatuses' =
          [BackupStatuses EXCEPT ![th[t].servers[j]] = StopEligibility]
    /\ th' = [th EXCEPT ![t].g[j].pc = "stopped"]
    /\ UNCHANGED <<ServerStatuses, running, serverInfoFile, backupLockFile,
                   properties, clock>>
    /\ UNCHANGED <<envVars, monVars, scriptVars>>

GoroutineOver(gr) == gr.pc \in {"skipped", "sendFailed", "stopped"}

\* wg.Wait() returns; the status file is written if a server was stopped.
StopUpdate(t) ==
    /\ th[t].pc = "stop_wait"
    /\ \A j \in DOMAIN th[t].g : GoroutineOver(th[t].g[j])
    /\ LET f == th[t]
       IN  IF f.stopped
           THEN /\ serverInfoFile' = UpdateServerStatus
                /\ th' = [th EXCEPT ![t] =
                      Return([f EXCEPT !.persisted = TRUE], "nil")]
           ELSE /\ serverInfoFile' = serverInfoFile
                /\ th' = [th EXCEPT ![t] = Return(f, "nil")]
    /\ UNCHANGED <<ServerStatuses, BackupStatuses, running, backupLockFile,
                   properties, clock>>
    /\ UNCHANGED <<envVars, monVars, scriptVars>>

StopStep(t) ==
    \/ StopList(t)
    \/ \E j \in 1..2 : StopIntent(t, j)
    \/ \E j \in 1..2 : StopSend(t, j)
    \/ \E j \in 1..2 : StopPoll(t, j)
    \/ \E j \in 1..2 : StopPollEnd(t, j)
    \/ \E j \in 1..2 : StopKillIntent(t, j)
    \/ \E j \in 1..2 : StopKillQuit(t, j)
    \/ \E j \in 1..2 : StopEnableBackup(t, j)
    \/ StopUpdate(t)

\* ----------------------------------------------------------------- Create

\* status.Online on the server's port: the players seen, or an error (and
\* then 0) when the server does not answer.
OnlineResults(server) ==
    IF server \in running
    THEN {[n |-> 0, err |-> FALSE], [n |-> 1, err |-> FALSE],
          [n |-> 0, err |-> TRUE]}
    ELSE {[n |-> 0, err |-> TRUE]}

\* The destinations a caller passes: the path of a bucket with and without
\* the scheme, in its parts.
Destinations == {<<"gs://", "bucket", "path">>, <<"bucket", "path">>}

\* fullDestination: the destination, the server and the name of the backup.
fullDestination(dest, srv) == dest \o <<srv, "backup.zip">>

\* gcloud storage cp of the zip file to fullDestination.  A destination
\* that begins with gs:// is a cloud object: the copy fails only when the
\* upload fails.  Any other destination is a path of the local file
\* system, where the copy succeeds or fails with that file system.
UploadOutcomes(full) ==
    IF full[1] = "gs://" THEN Outcomes("upload") ELSE BOOLEAN

\* Create starts a goroutine for each server, whatever dest is.
BeginCreate(t, lists) ==
    /\ Free(t)
    /\ clock <= MaxOps
    /\ clock' = clock + 1
    /\ \E args \in lists, force \in BOOLEAN, dest \in Destinations :
          th' = [th EXCEPT ![t] =
                   [NewFrame("Create", "create_wait", args) EXCEPT
                       !.force = force, !.dest = dest,
                       !.pending = 1..Len(args)]]
    /\ UNCHANGED <<ServerStatuses, BackupStatuses, running, serverInfoFile,
                   backupLockFile, properties>>
    /\ UNCHANGED <<envVars, monVars, scriptVars>>

\* One of the goroutines of Create takes errsMu and keeps it to its end.
CreatePick(t) ==
    /\ th[t].pc = "create_wait"
    /\ \E j \in th[t].pending :
          th' = [th EXCEPT ![t].pending = @ \ {j}, ![t].cur = j,
                           ![t].pc = "cb_should"]
    /\ UNCHANGED <<ServerStatuses, BackupStatuses, running, serverInfoFile,
                   backupLockFile, properties, clock>>
    /\ UNCHANGED <<envVars, monVars, scriptVars>>

\* A gate that lets every server through.
shouldBackupAlways(force, srv) == TRUE

\* shouldBackup: a server without an entry gets one and is backed up.
shouldBackup(force, srv) ==
    IF BackupStatuses[srv] = "absent"
    THEN TRUE
    ELSE force \/ BackupStatuses[srv] = "true"

\* createBackup, the gate.
CreateGate(t) ==
    /\ th[t].pc = "cb_should"
    /\ LET f == th[t]
           srv == f.servers[f.cur]
       IN  /\ BackupStatuses' =
                 IF BackupStatuses[srv] = "absent"
                 THEN [BackupStatuses EXCEPT ![srv] = "true"]
                 ELSE BackupStatuses
           /\ th' = [th EXCEPT ![t] =
                 IF shouldBackup(f.force, srv)
                 THEN [f EXCEPT !.pc = "cb_work"]
                 ELSE [f EXCEPT !.pc = "create_wait", !.cur = 0]]
    /\ UNCHANGED <<ServerStatuses, running, serverInfoFile, backupLockFile,
                   properties, clock>>
    /\ UNCHANGED <<envVars, monVars, scriptVars>>

\* createBackup: Notify, ForceSave, the zip file, gcloud storage cp.  When
\* os.CreateTemp fails the error message is built with zipFile.Name() on a
\* nil file, a nil dereference: the process panics.
CreateArchive(t) ==
    /\ th[t].pc = "cb_work"
    /\ LET f == th[t]
           srv == f.servers[f.cur]
       IN  \E outcome \in {"ok"} \cup (faults \cap {"tempfile", "archive"})
                     \cup {"upload" : ok \in
                              UploadOutcomes(fullDestination(f.dest, srv))
                                 \ {TRUE}} :
             th' = [th EXCEPT ![t] =
                 CASE outcome = "ok" ->
                        [f EXCEPT !.notified[srv] = @ + 1,
                                  !.uploaded[srv] = @ + 1, !.pc = "cb_final"]
                   [] outcome = "tempfile" ->
                        [f EXCEPT !.notified[srv] = @ + 1,
                                  !.err = "tempfile", !.pc = "panic"]
                   [] OTHER ->
                        [f EXCEPT !.notified[srv] = @ + 1,
                                  !.errs = @ \cup {srv},
                                  !.pc = "create_wait", !.cur = 0]]
    /\ UNCHANGED <<ServerStatuses, BackupStatuses, running, serverInfoFile,
                   backupLockFile, properties, clock>>
    /\ UNCHANGED <<envVars, monVars, scriptVars>>

\* createBackup, after the upload: with nobody online the eligibility is
\* cleared.  The port is read through the server's entry: without an entry
\* the read is a nil dereference and the process panics.
CreateClear(t) ==
    /\ th[t].pc = "cb_final"
    /\ LET f == th[t]
           srv == f.servers[f.cur]
       IN  IF ~Registered(srv)
           THEN /\ th' = [th EXCEPT ![t].pc = "panic"]
                /\ UNCHANGED BackupStatuses
           ELSE \E r \in OnlineResults(srv) :
                  /\ BackupStatuses' =
                        IF r.n = 0
                        THEN [BackupStatuses EXCEPT ![srv] = "false"]
                        ELSE BackupStatuses
                  /\ th' = [th EXCEPT ![t].backupMade = TRUE,
                                      ![t].online = r,
                                      ![t].pc = "create_wait", ![t].cur = 0]
    /\ UNCHANGED <<ServerStatuses, running, serverInfoFile, backupLockFile,
                   properties, clock>>
    /\ UNCHANGED <<envVars, monVars, scriptVars>>

\* wg.Wait() returns; the backup file is written if a backup was made.
CreateUpdate(t) ==
    /\ th[t].pc = "create_wait"
    /\ th[t].pending = {}
    /\ LET f == th[t]
           e == IF f.errs = {} THEN "nil" ELSE "backup"
       IN  IF f.backupMade
           THEN /\ backupLockFile' = UpdateBackupStatus
                /\ th' = [th EXCEPT ![t] =
                      Return([f EXCEPT !.persisted = TRUE], e)]
           ELSE /\ backupLockFile' = backupLockFile
                /\ th' = [th EXCEPT ![t] = Return(f, e)]
    /\ UNCHANGED <<ServerStatuses, BackupStatuses, running, serverInfoFile,
                   properties, clock>>
    /\ UNCHANGED <<envVars, monVars, scriptVars>>

\* mcctl backup create, the servers of the request: with --force all the
\* names given, otherwise those whose flag in the map mcctl has loaded from
\* backup.lock is there and true.
RequestServers(force, potentialServers) ==
    LET statuses ==
            initBackupStatus([s \in Servers |-> "absent"], backupLockFile)
        Flagged(s) == statuses[s] = "true"
    IN  IF force THEN potentialServers
        ELSE SelectSeq(potentialServers, Flagged)

\* The mcctl backup create command: it sends the request with the servers
\* it has selected to the manager, or nothing when it has selected none.
McctlBackupCreate(t, lists) ==
    /\ Free(t)
    /\ clock <= MaxOps
    /\ clock' = clock + 1
    /\ \E args \in lists, force \in BOOLEAN :
          LET servers == RequestServers(force, args)
              f == [NewFrame("mcctl backup create", "done", args) EXCEPT
                       !.force = force]
          IN  th' = [th EXCEPT ![t] =
                [Return(f, "nil") EXCEPT !.startServers = servers]]
    /\ UNCHANGED <<ServerStatuses, BackupStatuses, running, serverInfoFile,
                   backupLockFile, properties>>
    /\ UNCHANGED <<envVars, monVars, scriptVars>>

CreateStep(t) ==
    \/ CreatePick(t)
    \/ CreateGate(t)
    \/ CreateArchive(t)
    \/ CreateClear(t)
    \/ CreateUpdate(t)

\* ----------------------------------------------------------- handleStatus

BeginPoll(t) ==
    /\ Free(t)
    /\ clock <= MaxOps
    /\ clock' = clock + 1
    /\ th' = [th EXCEPT ![t] = NewFrame("handleStatus", "poll_list", <<>>)]
    /\ UNCHANGED <<ServerStatuses, BackupStatuses, running, serverInfoFile,
                   backupLockFile, properties>>
    /\ UNCHANGED <<envVars, monVars, scriptVars>>

\* runningServers, err := server.GetRunningServers(ctx)
PollList(t) ==
    /\ th[t].pc = "poll_list"
    /\ th' = [th EXCEPT ![t].runningServers = GetRunningServers,
                        ![t].keys = GetRunningServers,
                        ![t].changed = FALSE, ![t].errs = {},
                        ![t].pc = "poll_loop"]
    /\ UNCHANGED <<ServerStatuses, BackupStatuses, running, serverInfoFile,
                   backupLockFile, properties, clock>>
    /\ UNCHANGED <<envVars, monVars, scriptVars>>

\* The next server of the list, in the order screen gives, and the first
\* critical section: ShouldRun is read through the entry, before the test
\* that the entry exists; without an entry that is a nil dereference.
PollIntent(t) ==
    /\ th[t].pc = "poll_loop"
    /\ \E srv \in th[t].keys :
          LET f == [th[t] EXCEPT !.keys = @ \ {srv}, !.rsrv = srv]
          IN  th' = [th EXCEPT ![t] =
                CASE ~Registered(srv) -> [f EXCEPT !.pc = "panic"]
                  [] ~ServerStatuses[srv].ShouldRun -> f
                  [] OTHER -> [f EXCEPT !.pc = "poll_online"]]
    /\ UNCHANGED <<ServerStatuses, BackupStatuses, running, serverInfoFile,
                   backupLockFile, properties, clock>>
    /\ UNCHANGED <<envVars, monVars, scriptVars>>

\* time.Since(s.StartTime) < time.Minute: never for the zero time, and for
\* a server that was started as the clock has it.
StartedWithinMinute(status) ==
    IF status.StartTime = 0 THEN {FALSE} ELSE BOOLEAN

\* The second critical section: the entry is looked up and status.Online is
\* called; an error is dropped for a server started within the last minute
\* and kept for the others.
PollOnline(t) ==
    /\ th[t].pc = "poll_online"
    /\ LET f == th[t]
           srv == f.rsrv
       IN  IF ~Registered(srv)
           THEN th' = [th EXCEPT ![t].pc = "poll_loop"]
           ELSE \E r \in OnlineResults(srv),
                   young \in StartedWithinMinute(ServerStatuses[srv]) :
                  th' = [th EXCEPT ![t] =
                     CASE r.err /\ young ->
                            [f EXCEPT !.polled = @ \cup {srv},
                                      !.pc = "poll_loop"]
                       [] r.err /\ ~young ->
                            [f EXCEPT !.polled = @ \cup {srv},
                                      !.errs = @ \cup {srv},
                                      !.pc = "poll_loop"]
                       [] OTHER ->
                            [f EXCEPT !.polled = @ \cup {srv},
                                      !.online = r,
                                      !.pc = IF r.n > 0 THEN "poll_enable"
                                             ELSE "poll_loop"]]
    /\ UNCHANGED <<ServerStatuses, BackupStatuses, running, serverInfoFile,
                   backupLockFile, properties, clock>>
    /\ UNCHANGED <<envVars, monVars, scriptVars>>

\* changed = !common.BackupStatuses[srv]: the value of the last assignment.
Changed(changed, srv) == BackupStatuses[srv] # "true"

\* Players are online: the third critical section unlocks the backups.
PollEnable(t) ==
    /\ th[t].pc = "poll_enable"
    /\ LET srv == th[t].rsrv
       IN  /\ BackupStatuses' = [BackupStatuses EXCEPT ![srv] = "true"]
           /\ th' = [th EXCEPT ![t].changed = Changed(th[t].changed, srv),
                               ![t].pc = "poll_loop"]
    /\ UNCHANGED <<ServerStatuses, running, serverInfoFile, backupLockFile,
                   properties, clock>>
    /\ UNCHANGED <<envVars, monVars, scriptVars>>

\* After the loop: the backup file is written if changed is set.
PollUpdate(t) ==
    /\ th[t].pc = "poll_loop"
    /\ th[t].keys = {}
    /\ LET f == th[t]
           e == IF f.errs = {} THEN "nil" ELSE "status"
       IN  IF f.changed
           THEN /\ backupLockFile' = UpdateBackupStatus
                /\ th' = [th EXCEPT ![t] =
                      Return([f EXCEPT !.persisted = TRUE], e)]
           ELSE /\ backupLockFile' = backupLockFile
                /\ th' = [th EXCEPT ![t] = Return(f, e)]
    /\ UNCHANGED <<ServerStatuses, BackupStatuses, running, serverInfoFile,
                   properties, clock>>
    /\ UNCHANGED <<envVars, monVars, scriptVars>>

PollStep(t) ==
    \/ PollList(t)
    \/ PollIntent(t)
    \/ PollOnline(t)
    \/ PollEnable(t)
    \/ PollUpdate(t)

\* ---------------------------------------------------------- extra scripts

\* The largest time of the clock of the extra scripts.
MaxTime == 6

\* The zero value of time.Time, the LastRun of a script that has none.
ZeroTime == 0

\* The script names and the intervals of the descriptors.
ScriptNames == {"x", "y"}
Intervals == {2}

\* extraScript: a script of a descriptor as yaml.Unmarshal gives it; the
\* descriptors have no last-run key, which leaves LastRun the zero time.
extraScript(name, interval) ==
    [Name |-> name, Interval |-> interval, LastRun |-> ZeroTime]

\* configuration: the lists of scripts of the descriptors.
configuration ==
    {<<>>} \cup {<<extraScript(n, i)>> : n \in ScriptNames, i \in Intervals}
        \cup {<<extraScript("x", i), extraScript("y", i)>> : i \in Intervals}

\* The scripts.yaml of a server directory: missing, or one of the lists.
NoYaml == [exists |-> FALSE, scripts |-> <<>>]
YamlFiles == {NoYaml} \cup {[exists |-> TRUE, scripts |-> c] : c \in configuration}

\* currentConfigurations has no key for the server: the lookup gives the nil
\* pointer and ok = false.
NoConfiguration == [ok |-> FALSE, Scripts |-> <<>>]

\* currentConfigurations = make(map[string]*configuration)
NoScripts ==
    /\ currentConfigurations = [s \in Servers |-> NoConfiguration]
    /\ scriptsYaml = [s \in Servers |-> NoYaml]
    /\ now = 3
    /\ executed = {}

\* getScriptNames: the names of the scripts of a list.
getScriptNames(scripts) == {scripts[i].Name : i \in DOMAIN scripts}

\* slices.DeleteFunc(scripts, func: the name is in rmScripts)
DeleteFunc(scripts, rmScripts) ==
    SelectSeq(scripts, LAMBDA script : script.Name \notin rmScripts)

\* readYaml: the error and the configuration of the server it leaves in
\* currentConfigurations. A missing file returns nil and stores nothing. The
\* first descriptor read is stored as it is. After that, every script of the
\* file that the stored list does not have replaces the stored list by the
\* list of the file with that script appended (the map of the scripts of the
\* file is ranged over in any order, the last one stays), and then the
\* scripts the file no longer has are deleted.
readYaml(server, parsed) ==
    LET file == scriptsYaml[server]
        currConf == currentConfigurations[server]
        currConfKeys == getScriptNames(currConf.Scripts)
        gotConfKeys == getScriptNames(file.scripts)
        new == {i \in DOMAIN file.scripts :
                   file.scripts[i].Name \notin currConfKeys}
        added == IF new = {} THEN {currConf.Scripts}
                 ELSE {file.scripts \o <<file.scripts[i]>> : i \in new}
    IN  CASE ~file.exists -> {[err |-> "nil", conf |-> currConf]}
          [] ~parsed -> {[err |-> "unmarshal", conf |-> currConf]}
          [] ~currConf.ok ->
                {[err |-> "nil",
                  conf |-> [ok |-> TRUE, Scripts |-> file.scripts]]}
          [] OTHER ->
                {[err |-> "nil",
                  conf |-> [ok |-> TRUE,
                            Scripts |-> DeleteFunc(a, currConfKeys \ gotConfKeys)]]
                    : a \in added}

\* time.Since(script.LastRun) >= script.Interval
Since(t) == now - t
Due(scripts) ==
    {i \in DOMAIN scripts : Since(scripts[i].LastRun) >= scripts[i].Interval}

\* The range loop of ExtraScripts over the stored list: script is a copy of
\* the element, so script.LastRun = time.Now() changes the copy and the
\* stored element keeps its LastRun.
RangeCopy(scripts) == scripts

\* handleExtraScripts begins: the running servers are listed.
BeginScripts(t) ==
    /\ Free(t)
    /\ clock <= MaxOps
    /\ clock' = clock + 1
    /\ th' = [th EXCEPT ![t] =
                [NewFrame("handleExtraScripts", "xs_loop", <<>>)
                   EXCEPT !.runningServers = GetRunningServers,
                          !.keys = GetRunningServers]]
    /\ UNCHANGED <<ServerStatuses, BackupStatuses, running, serverInfoFile,
                   backupLockFile, properties>>
    /\ UNCHANGED <<envVars, monVars, scriptVars>>

\* ExtraScripts for the next running server: readYaml, and then the loop
\* over currentConfigurations[server].Scripts, which without a configuration
\* for the server reads through the nil pointer.
ExtraScripts(t) ==
    /\ th[t].pc = "xs_loop"
    /\ \E server \in th[t].keys, parsed \in Outcomes("unmarshal"),
          ran \in Outcomes("run") :
          \E r \in readYaml(server, parsed) :
             LET f == [th[t] EXCEPT !.keys = @ \ {server}, !.rsrv = server]
                 due == Due(r.conf.Scripts)
             IN  CASE r.err # "nil" ->
                        /\ th' = [th EXCEPT ![t] =
                                    [f EXCEPT !.visited = @ \cup {server},
                                              !.failed = @ \cup {server}]]
                        /\ UNCHANGED <<currentConfigurations, executed>>
                   [] r.err = "nil" /\ ~r.conf.ok ->
                        /\ th' = [th EXCEPT ![t] = [f EXCEPT !.pc = "panic"]]
                        /\ UNCHANGED <<currentConfigurations, executed>>
                   [] OTHER ->
                        /\ currentConfigurations' =
                              [currentConfigurations EXCEPT ![server] =
                                  [r.conf EXCEPT !.Scripts = RangeCopy(@)]]
                        /\ executed' = executed \cup
                              {<<server, r.conf.Scripts[i].Name, now>> : i \in due}
                        /\ th' = [th EXCEPT ![t] =
                                    [f EXCEPT !.visited = @ \cup {server},
                                              !.failed =
                                                 IF due # {} /\ ~ran
                                                 THEN @ \cup {server} ELSE @]]
    /\ UNCHANGED <<ServerStatuses, BackupStatuses, running, serverInfoFile,
                   backupLockFile, properties, clock>>
    /\ UNCHANGED <<envVars, monVars, scriptsYaml, now>>

\* return errors.Join(errs...)
ScriptsReturn(t) ==
    /\ th[t].pc = "xs_loop"
    /\ th[t].keys = {}
    /\ th' = [th EXCEPT ![t] =
                Return(th[t], IF th[t].failed = {} THEN "nil" ELSE "errors")]
    /\ UNCHANGED <<ServerStatuses, BackupStatuses, running, serverInfoFile,
                   backupLockFile, properties, clock>>
    /\ UNCHANGED <<envVars, monVars, scriptVars>>

ScriptsStep(t) == ExtraScripts(t) \/ ScriptsReturn(t)

\* A second passes.
TimePasses ==
    /\ now < MaxTime
    /\ now' = now + 1
    /\ UNCHANGED <<ServerStatuses, BackupStatuses, running, serverInfoFile,
                   backupLockFile, properties, clock, th>>
    /\ UNCHANGED <<envVars, monVars, currentConfigurations, scriptsYaml,
                   executed>>

\* The operator writes or removes the scripts.yaml of a server.
EditYaml(s) ==
    /\ \E file \in YamlFiles :
          /\ file # scriptsYaml[s]
          /\ scriptsYaml' = [scriptsYaml EXCEPT ![s] = file]
    /\ UNCHANGED <<ServerStatuses, BackupStatuses, running, serverInfoFile,
                   backupLockFile, properties, clock, th>>
    /\ UNCHANGED <<envVars, monVars, currentConfigurations, now, executed>>

\* ------------------------------------------------------------------ locks

\* The mutexes a goroutine holds while the step it takes next makes a
\* blocking call: setPort inside the critical section of Start, status.Online
\* inside the last critical section of createBackup.
BlockingUnderLock(f) ==
    CASE f.pc = "start_upsert" /\ f.isNew -> {"ServerStatusesMu"}
      [] f.pc = "cb_final" /\ Registered(f.servers[f.cur]) ->
            {"BackupStatusesMu"}
      [] OTHER -> {}

\* The step the goroutine takes next reads ServerStatuses without holding
\* ServerStatusesMu: the lookup of determinePort, the range of handleCrash,
\* the port read of createBackup.
UnlockedRead(f) ==
    \/ f.pc = "dp_read"
    \/ f.pc = "tick_loop" /\ f.keys # {}
    \/ f.pc = "cb_final"

\* The step the goroutine takes next inserts an entry into ServerStatuses.
MapWrite(f) == f.pc = "start_upsert" /\ f.isNew

\* ------------------------------------------------------------ environment

\* A session ends by itself: the server process crashed or exited.
SessionExits(s) ==
    /\ s \in running
    /\ running' = running \ {s}
    /\ UNCHANGED <<ServerStatuses, BackupStatuses, serverInfoFile,
                   backupLockFile, properties, clock, th>>
    /\ UNCHANGED <<envVars, monVars, scriptVars>>

\* A server writes a crash report: the game crashed, the session may
\* outlive it.
CrashReport(s) ==
    /\ s \in running
    /\ crash' = [crash EXCEPT ![s] = "fresh"]
    /\ timers' = [timers EXCEPT ![s] =
                      [armed |-> 0, due |-> @.due + @.armed,
                       recoveries |-> 0]]
    /\ UNCHANGED <<ServerStatuses, BackupStatuses, running, serverInfoFile,
                   backupLockFile, properties, clock, th, badReport, faults,
                   monVars, scriptVars>>

\* recoveryTime passes: the newest report of s is no longer recent, and the
\* goroutines that were to reset Recovering for s are due.
ReportAges(s) ==
    /\ crash[s] = "fresh"
    /\ crash' = [crash EXCEPT ![s] = "stale"]
    /\ timers' = [timers EXCEPT ![s] =
                      [armed |-> 0, due |-> @.due + @.armed,
                       recoveries |-> @.recoveries]]
    /\ UNCHANGED <<ServerStatuses, BackupStatuses, running, serverInfoFile,
                   backupLockFile, properties, clock, th, badReport, faults,
                   monVars, scriptVars>>

\* ---------------------------------------------------------------- monitor

Listeners == {"local", "remote"}

\* A connection no listener has accepted yet.
NoConn ==
    [lc |-> "none", pc |-> "none", req |-> <<>>, readOK |-> FALSE,
     call |-> "none", resp |-> <<>>]

\* SetupMonitor and SetupTLS have returned: both listeners listen.
MonitorInit ==
    /\ conns = [c \in Threads |-> NoConn]
    /\ lc = [l \in Listeners |-> "listening"]
    /\ process = "up"

\* The Status of the responses.
StatusOK == 0
ConnErrorStatus == 101
TimeoutErrorStatus == 102
ExecutionErrorStatus == 103

\* NewExecutionError: the Status of the Response for the error of a handler.
NewExecutionError(err) ==
    IF err = "nil" THEN StatusOK ELSE ExecutionErrorStatus

\* The requests a client sends, as the words and the white space read.
Requests ==
    {<<>>, <<" ">>, <<"server">>, <<"backup">>, <<"status">>,
     <<"server", " ", "info">>,
     <<"server", " ", "start", " ", "a">>,
     <<"server", " ", "stop", " ", "a">>,
     <<"server", " ", "restart", " ", "a">>,
     <<"backup", " ", "create", " ", "a">>}

IsWord(x) == x # " "

\* strings.Fields
Fields(req) == SelectSeq(req, IsWord)

\* What a handler does with a request: it panics on an index or a slice out
\* of range, it returns at once, or it calls an operation.
Panics == [kind |-> "panic", op |-> "none", servers |-> <<>>, err |-> "nil"]

Returns(e) ==
    [kind |-> "return", op |-> "none", servers |-> <<>>, err |-> e]

Calls(op, servers) ==
    [kind |-> "call", op |-> op, servers |-> servers, err |-> "nil"]

\* fields[2:]
From2(fields) == SubSeq(fields, 3, Len(fields))

\* server.GetInfo writes the table of the servers into the buffer of the
\* handler and changes nothing: the read-only info of the remote endpoint.
GetInfo == Returns("nil")

\* handleMessage, the handler of the local listener.
handleMessage(fields) ==
    IF Len(fields) = 0 THEN Panics
    ELSE IF fields[1] = "server"
    THEN IF Len(fields) < 2 THEN Panics
         ELSE CASE fields[2] = "stop" -> Calls("Stop", From2(fields))
                [] fields[2] = "start" -> Calls("Start", From2(fields))
                [] fields[2] = "restart" -> Calls("Restart", From2(fields))
                [] OTHER -> Returns("unknown")
    ELSE Returns("unknown")

\* A remote handler that passes "server stop" on to Stop.
handleTLSMessageWithStop(fields) ==
    IF Len(fields) = 0 THEN Panics
    ELSE IF fields[1] = "backup"
    THEN IF Len(fields) < 2 THEN Panics
         ELSE IF fields[2] = "create"
              THEN Calls("Create", From2(fields))
              ELSE Returns("unknown")
    ELSE IF fields[1] = "server"
    THEN IF Len(fields) < 2 THEN Panics
         ELSE CASE fields[2] = "stop" -> Calls("Stop", From2(fields))
                [] fields[2] = "info" -> GetInfo
                [] OTHER -> Returns("nil")
    ELSE Returns("unknown")

\* handleTLSMessage, the handler of the remote listener: "server" with any
\* action leaves the switch and ends at the last line, return "", nil.
handleTLSMessage(fields) ==
    IF Len(fields) = 0 THEN Panics
    ELSE IF fields[1] = "backup"
    THEN IF Len(fields) < 2 THEN Panics
         ELSE IF fields[2] = "create"
              THEN Calls("Create", From2(fields))
              ELSE Returns("unknown")
    ELSE IF fields[1] = "server"
    THEN IF Len(fields) < 2 THEN Panics
         ELSE IF fields[2] = "info" THEN GetInfo ELSE Returns("nil")
    ELSE Returns("unknown")

\* The process runs: no goroutine has panicked.
Up == process = "up" /\ \A t \in Threads : th[t].pc # "panic"

InProgress(c) == conns[c].pc \in {"accepted", "read", "wait"}

\* The end of a connection: the goroutine of the local listener closes it,
\* the remote listener leaves it open and goes back to Accept.
Finished(l) == IF l = "local" THEN "closed" ELSE "answered"

\* Accept returns a connection.  The local listener hands it to a goroutine
\* of its own; the remote listener serves it itself before it accepts the
\* next one.
Accept(c, l) ==
    /\ Up
    /\ lc[l] = "listening"
    /\ conns[c].pc = "none"
    /\ th[c].pc = "idle"
    /\ IF c = 1 THEN TRUE ELSE conns[c - 1].pc # "none"
    /\ l = "remote" =>
          \A d \in Threads : conns[d].lc = "remote" => ~InProgress(d)
    /\ conns' = [conns EXCEPT ![c] = [NoConn EXCEPT !.lc = l,
                                                    !.pc = "accepted"]]
    /\ UNCHANGED <<ServerStatuses, BackupStatuses, running, serverInfoFile,
                   backupLockFile, properties, clock, th, envVars, scriptVars,
                   lc,
                   process>>

\* Accept of the remote listener fails: the error is logged and the nil
\* connection is read, a nil dereference.
AcceptFails ==
    /\ Up
    /\ "accept" \in faults
    /\ lc["remote"] = "listening"
    /\ \A d \in Threads : conns[d].lc = "remote" => ~InProgress(d)
    /\ process' = "panic_accept"
    /\ UNCHANGED <<ServerStatuses, BackupStatuses, running, serverInfoFile,
                   backupLockFile, properties, clock, th, envVars, scriptVars,
                   conns,
                   lc>>

\* readFromConn: the request, or a response for the failed read.  After a
\* failed read the goroutine of the connection returns; on the remote
\* listener that goroutine is the accept loop, and its return closes the
\* listener.
ReadConn(c) ==
    /\ Up
    /\ conns[c].pc = "accepted"
    /\ \E ok \in Outcomes("read") :
          IF ok
          THEN /\ \E req \in Requests :
                     conns' = [conns EXCEPT ![c].req = req,
                                            ![c].readOK = TRUE,
                                            ![c].pc = "read"]
               /\ lc' = lc
          ELSE /\ \E status \in {ConnErrorStatus, TimeoutErrorStatus} :
                     conns' = [conns EXCEPT
                                 ![c].resp = Append(@, status),
                                 ![c].pc = Finished(conns[c].lc)]
               /\ lc' = IF conns[c].lc = "remote"
                        THEN [lc EXCEPT !["remote"] = "closed"]
                        ELSE lc
    /\ UNCHANGED <<ServerStatuses, BackupStatuses, running, serverInfoFile,
                   backupLockFile, properties, clock, th, envVars, scriptVars,
                   process>>

\* The -tls-bucket flag, as the operator of the manager sets it.
tlsBucket == <<"gs://", "bucket", "path">>

\* The frame of the operation a handler calls; Restart begins with Stop.
CallFrame(h) ==
    CASE h.op = "Start" -> NewFrame("Start", "start_list", h.servers)
      [] h.op \in {"Stop", "Restart"} ->
            NewFrame("Stop", "stop_list", h.servers)
      [] h.op = "Create" ->
            [NewFrame("Create", "create_wait", h.servers) EXCEPT
                !.force = TRUE, !.dest = tlsBucket,
                !.pending = 1..Len(h.servers)]

\* The handler of the listener is called with the message.
Dispatch(c) ==
    /\ Up
    /\ conns[c].pc = "read"
    /\ LET fields == Fields(conns[c].req)
           h == IF conns[c].lc = "local"
                THEN handleMessage(fields)
                ELSE handleTLSMessage(fields)
       IN  CASE h.kind = "panic" ->
                  /\ process' = "panic_dispatch"
                  /\ UNCHANGED <<conns, th, clock>>
             [] h.kind = "return" ->
                  /\ conns' = [conns EXCEPT
                        ![c].resp = Append(@, NewExecutionError(h.err)),
                        ![c].pc = Finished(conns[c].lc)]
                  /\ UNCHANGED <<process, th, clock>>
             [] h.kind = "call" ->
                  /\ clock <= MaxOps
                  /\ clock' = clock + 1
                  /\ th' = [th EXCEPT ![c] = CallFrame(h)]
                  /\ conns' = [conns EXCEPT ![c].call = h.op,
                                            ![c].pc = "wait"]
                  /\ process' = process
    /\ UNCHANGED <<ServerStatuses, BackupStatuses, running, serverInfoFile,
                   backupLockFile, properties, envVars, scriptVars, lc>>

\* The operation has returned: Restart goes on with Start when Stop returned
\* no error; otherwise the Response is written.
Respond(c) ==
    /\ Up
    /\ conns[c].pc = "wait"
    /\ th[c].pc = "done"
    /\ IF conns[c].call = "Restart" /\ th[c].op = "Stop" /\ th[c].err = "nil"
       THEN /\ th' = [th EXCEPT ![c] =
                  NewFrame("Start", "start_list", th[c].args)]
            /\ conns' = conns
       ELSE /\ conns' = [conns EXCEPT
                  ![c].resp = Append(@, NewExecutionError(th[c].err)),
                  ![c].pc = Finished(conns[c].lc)]
            /\ th' = th
    /\ UNCHANGED <<ServerStatuses, BackupStatuses, running, serverInfoFile,
                   backupLockFile, properties, clock, envVars, scriptVars,
                   lc, process>>

\* ------------------------------------------------------ the store mutexes

\* mu.Lock() ... mu.Unlock(): a critical section that comes to its unlock,
\* by the call or by defer.
CriticalSection(mu) == <<<<"Lock", mu>>, <<"Unlock", mu>>>>

\* mu.Lock() followed by a read through the nil entry of a server that is
\* not registered: the goroutine panics before the unlock.
NilEntry(mu) == <<<<"Lock", mu>>, <<"panic", mu>>>>

\* The paths of a call followed by the paths of the next.
Then(first, next) == {a \o b : a \in first, b \in next}

\* The body of a loop run for up to n elements.
RECURSIVE Range(_, _)
Range(body, n) ==
    IF n = 0 THEN {<<>>}
    ELSE {<<>>} \cup Then(body, Range(body, n - 1))

\* initStatus and updateStatus: mu.Lock(), defer mu.Unlock(), and every
\* return after that.
initStatusLocks(mu) == {CriticalSection(mu)}
updateStatusLocks(mu) == {CriticalSection(mu)}

\* determinePort: returns after the lookup for a server that has an entry,
\* otherwise locks, defers the unlock, and scans.
determinePortLocks == {<<>>, CriticalSection("ServerStatusesMu")}

\* One server of the loop of Start that is not running: determinePort, then
\* the critical section, which unlocks before the return on a setPort error
\* and before the launch otherwise.
StartServerLocks ==
    Then(determinePortLocks, {CriticalSection("ServerStatusesMu")})

\* Start: the loop (a return on an error ends it early), then
\* UpdateServerStatus if something started.
StartLocks ==
    Then(Range(StartServerLocks, Cardinality(Servers)),
         {<<>>} \cup updateStatusLocks("ServerStatusesMu"))

\* Kill: with recover = false the critical section that clears ShouldRun.
KillLocks(recover) ==
    IF recover THEN {<<>>}
    ELSE {CriticalSection("ServerStatusesMu"), NilEntry("ServerStatusesMu")}

\* One goroutine of Stop: nothing for a server that is not running;
\* otherwise the critical section that clears ShouldRun, a return if the
\* stop command fails or the list fails, the polls, Kill if the timeout was
\* reached, and the critical section that enables the backup.
StopGoroutineLocks ==
    {<<>>, NilEntry("ServerStatusesMu"),
     CriticalSection("ServerStatusesMu")}
      \cup Then(Then({CriticalSection("ServerStatusesMu")},
                     {<<>>} \cup KillLocks(FALSE)),
                {CriticalSection("BackupStatusesMu")})

\* Stop after wg.Wait(): UpdateServerStatus if a server was stopped.
StopLocks == {<<>>} \cup updateStatusLocks("ServerStatusesMu")

\* The goroutine of Recover that resets Recovering after recoveryTime.
ResetLocks == {CriticalSection("ServerStatusesMu")}

\* One report of the loop of Recover: the critical section that reads
\* Recovering; for a fresh report and no recovery going on, the critical
\* section that sets it, Kill(recover = true), and Start of the server.
RecoverReportLocks ==
    {NilEntry("ServerStatusesMu"), CriticalSection("ServerStatusesMu")}
      \cup Then({CriticalSection("ServerStatusesMu") \o
                 CriticalSection("ServerStatusesMu")},
                Then(KillLocks(TRUE),
                     {<<>>} \cup Then(StartServerLocks,
                                      updateStatusLocks("ServerStatusesMu"))))

\* Recover: the loop over the reports of the directory.
RecoverLocks == Range(RecoverReportLocks, 2)

\* The loop body of handleStatus without the unlock before its first
\* continue.
handleStatusServerLeak ==
    {NilEntry("ServerStatusesMu"),
     <<<<"Lock", "ServerStatusesMu">>>>,
     CriticalSection("ServerStatusesMu")
        \o CriticalSection("ServerStatusesMu"),
     CriticalSection("ServerStatusesMu")
        \o CriticalSection("ServerStatusesMu")
        \o CriticalSection("BackupStatusesMu")}

\* One running server of the loop of handleStatus: the critical section
\* that reads ShouldRun (unlock and continue if it is false); the critical
\* section with the lookup and the query (unlock and continue without an
\* entry or on an error, unlock after the query); the critical section on
\* the backup map if somebody is online.
handleStatusServerLocks ==
    {NilEntry("ServerStatusesMu"),
     CriticalSection("ServerStatusesMu"),
     CriticalSection("ServerStatusesMu")
        \o CriticalSection("ServerStatusesMu"),
     CriticalSection("ServerStatusesMu")
        \o CriticalSection("ServerStatusesMu")
        \o CriticalSection("BackupStatusesMu")}

\* handleStatus: the loop over the running servers, then UpdateBackupStatus
\* if a flag changed.
handleStatusLocks ==
    Then(Range(handleStatusServerLocks, Cardinality(Servers)),
         {<<>>} \cup updateStatusLocks("BackupStatusesMu"))

\* shouldBackup: Lock, defer Unlock, both returns.
shouldBackupLocks == {CriticalSection("BackupStatusesMu")}

\* createBackup: shouldBackup; for a backup that is made and uploaded the
\* critical section that clears the flag, in which ServerStatuses is read
\* without its mutex (a nil entry panics there).
createBackupLocks ==
    Then(shouldBackupLocks,
         {<<>>, CriticalSection("BackupStatusesMu"),
          NilEntry("BackupStatusesMu")})

\* Create after wg.Wait(): UpdateBackupStatus if a backup was made.
CreateLocks == {<<>>} \cup updateStatusLocks("BackupStatusesMu")

\* The paths of the goroutines that use the store mutexes.
LockPaths ==
    [InitStatuses |-> Then(initStatusLocks("ServerStatusesMu"),
                           {<<>>} \cup initStatusLocks("BackupStatusesMu")),
     Start |-> StartLocks,
     Stop |-> StopLocks,
     StopGoroutine |-> StopGoroutineLocks,
     Kill |-> KillLocks(FALSE),
     Recover |-> RecoverLocks,
     ResetRecovering |-> ResetLocks,
     handleStatus |-> handleStatusLocks,
     createBackup |-> createBackupLocks,
     Create |-> CreateLocks]

\* A goroutine begins one of the operations and takes one of its paths.
BeginLocked(t) ==
    /\ Up
    /\ Free(t)
    /\ clock <= MaxOps
    /\ clock' = clock + 1
    /\ \E op \in DOMAIN LockPaths :
          \E path \in LockPaths[op] :
             th' = [th EXCEPT ![t] =
                      [IdleFrame EXCEPT !.op = op, !.pc = "locks",
                                        !.events = path]]
    /\ UNCHANGED <<ServerStatuses, BackupStatuses, running, serverInfoFile,
                   backupLockFile, properties>>
    /\ UNCHANGED <<envVars, monVars, scriptVars>>

\* sync.Mutex: Lock returns when no goroutine holds the mutex (the caller
\* included), Unlock releases it; the panic ends the process.
LockStep(t) ==
    /\ Up
    /\ th[t].pc = "locks"
    /\ th[t].events # <<>>
    /\ LET e == Head(th[t].events)
           f == [th[t] EXCEPT !.events = Tail(@)]
       IN  CASE e[1] = "Lock" ->
                  /\ \A u \in Threads : e[2] \notin th[u].held
                  /\ th' = [th EXCEPT ![t] =
                              [f EXCEPT !.held = @ \cup {e[2]}]]
             [] e[1] = "Unlock" ->
                  th' = [th EXCEPT ![t] = [f EXCEPT !.held = @ \ {e[2]}]]
             [] OTHER ->
                  th' = [th EXCEPT ![t] = [f EXCEPT !.pc = "panic"]]
    /\ UNCHANGED <<ServerStatuses, BackupStatuses, running, serverInfoFile,
                   backupLockFile, properties, clock>>
    /\ UNCHANGED <<envVars, monVars, scriptVars>>

\* The operation returns.
LockReturn(t) ==
    /\ Up
    /\ th[t].pc = "locks"
    /\ th[t].events = <<>>
    /\ th' = [th EXCEPT ![t].pc = "done"]
    /\ UNCHANGED <<ServerStatuses, BackupStatuses, running, serverInfoFile,
                   backupLockFile, properties, clock>>
    /\ UNCHANGED <<envVars, monVars, scriptVars>>

\* ---------------------------------------------------------- specifications

\* A fresh installation: InitStatuses finds no server.info and no
\* backup.lock, and no session runs.
Init ==
    /\ ServerStatuses = [s \in Servers |-> NoEntry]
    /\ BackupStatuses = [s \in Servers |-> "absent"]
    /\ running = {}
    /\ serverInfoFile = NoFile
    /\ backupLockFile = NoFile
    /\ properties = [s \in Servers |-> 0]
    /\ clock = 1
    /\ th = [t \in Threads |-> IdleFrame]
    /\ crash = [s \in Servers |-> "none"]
    /\ badReport = [s \in Servers |-> "none"]
    /\ timers = [s \in Servers |-> NoTimer]
    /\ faults = AllFaults
    /\ MonitorInit
    /\ NoScripts

\* The ports Start gives to the servers of reg when they are registered in
\* the order "a", "b".
RegistrationOrder == <<"a", "b">>

FleetPort(reg, s) ==
    baseServerPort + Cardinality({k \in DOMAIN RegistrationOrder :
        /\ RegistrationOrder[k] \in reg
        /\ \E m \in DOMAIN RegistrationOrder :
              RegistrationOrder[m] = s /\ k < m})

\* The manager after an earlier run: InitStatuses has loaded the maps the
\* earlier run wrote, some registered servers run in their sessions.
InitFleet ==
    /\ \E reg \in SUBSET Servers :
          /\ \E should \in SUBSET reg :
                ServerStatuses = [s \in Servers |->
                    IF s \in reg
                    THEN [Name |-> s, Port |-> FleetPort(reg, s),
                          Recovering |-> FALSE, ShouldRun |-> s \in should,
                          StartTime |-> IF s \in should THEN 1 ELSE 0]
                    ELSE NoEntry]
          /\ running \in SUBSET reg
          /\ properties = [s \in Servers |->
                              IF s \in reg THEN FleetPort(reg, s) ELSE 0]
    /\ BackupStatuses \in [Servers -> {"absent", "true", "false"}]
    /\ serverInfoFile = UpdateServerStatus
    /\ backupLockFile = UpdateBackupStatus
    /\ clock = 1
    /\ th = [t \in Threads |-> IdleFrame]
    /\ timers = [s \in Servers |-> NoTimer]
    /\ MonitorInit
    /\ NoScripts

\* No crash report lies in any crash-reports directory; every subprocess
\* and file operation can fail.
NoReports ==
    /\ crash = [s \in Servers |-> "none"]
    /\ badReport = [s \in Servers |-> "none"]
    /\ faults = AllFaults

\* The status maps a manager can hold: an entry carries the name of its
\* key, one of two ports, and any intent, start time and recovery mark.
StatusPorts == {baseServerPort, baseServerPort + 1}

InitMaps ==
    /\ ServerStatuses \in
          [Servers -> {NoEntry} \cup
              [Name : Servers, Port : StatusPorts, Recovering : BOOLEAN,
               ShouldRun : BOOLEAN, StartTime : {0, 1}]]
    /\ \A s \in Servers : Registered(s) => ServerStatuses[s].Name = s
    /\ BackupStatuses \in [Servers -> {"absent", "true", "false"}]
    /\ running = {}
    /\ serverInfoFile = NoFile
    /\ backupLockFile = NoFile
    /\ properties = [s \in Servers |-> 0]
    /\ clock = 1
    /\ th = [t \in Threads |-> IdleFrame]
    /\ crash = [s \in Servers |-> "none"]
    /\ badReport = [s \in Servers |-> "none"]
    /\ timers = [s \in Servers |-> NoTimer]
    /\ faults = {}
    /\ MonitorInit
    /\ NoScripts

\* The maps are written and a new process loads them.
NextRoundTrip ==
    \/ WriteServerStatus(1)
    \/ WriteBackupStatus(1)
    \/ InitStatuses(1)

SpecRoundTrip == InitMaps /\ [][NextRoundTrip]_vars

\* Commands run one after the other on thread 1.
NextSeq ==
    \/ BeginStart(1, ArgLists)
    \/ StartStep(1)
    \/ \E s \in Servers : SessionExits(s)

SpecSeq == Init /\ [][NextSeq]_vars

\* Stop commands, one after the other, on a fleet.
NextStop ==
    \/ BeginStop(1, StopLists)
    \/ StopStep(1)
    \/ \E s \in Servers : SessionExits(s)

InitStop == InitFleet /\ NoReports

SpecStop == InitStop /\ [][NextStop]_vars

\* Backup commands, one after the other, on a fleet.
NextBackup ==
    \/ BeginCreate(1, ArgLists)
    \/ CreateStep(1)
    \/ \E s \in Servers : SessionExits(s)

InitBackup == InitFleet /\ NoReports

SpecBackup == InitBackup /\ [][NextBackup]_vars

\* The crash-reports directories of a fleet: a report lies only in the
\* directory of a registered server; the backup locks are all unlocked.
InitReports ==
    /\ InitFleet
    /\ BackupStatuses = [s \in Servers |-> "true"]
    /\ crash \in [Servers -> {"none", "fresh", "stale"}]
    /\ badReport \in [Servers -> {"none", "first", "last"}]
    /\ \A s \in Servers :
          ~Registered(s) => crash[s] = "none" /\ badReport[s] = "none"

\* Two callers run Recover concurrently, each once; time passes.
NextRecover ==
    \/ \E t \in Threads : th[t].pc = "idle" /\ BeginRecover(t, Servers, TRUE)
    \/ \E t \in Threads : RecoverStep(t)
    \/ \E s \in Servers : ReportAges(s)
    \/ \E s \in Servers : ResetRecovering(s)

\* Every subprocess can fail.
InitRecover == InitReports /\ faults = AllFaults

SpecRecover == InitRecover /\ [][NextRecover]_vars

\* The status poller: cycles of handleStatus one after the other on a fleet
\* where sessions may run that the manager has no entry for; between two
\* cycles sessions end.
InitPoll ==
    /\ \E reg \in SUBSET Servers :
          /\ \E should \in SUBSET reg :
                ServerStatuses = [s \in Servers |->
                    IF s \in reg
                    THEN [Name |-> s, Port |-> FleetPort(reg, s),
                          Recovering |-> FALSE, ShouldRun |-> s \in should,
                          StartTime |-> IF s \in should THEN 1 ELSE 0]
                    ELSE NoEntry]
          /\ properties = [s \in Servers |->
                              IF s \in reg THEN FleetPort(reg, s) ELSE 0]
    /\ running \in SUBSET Servers
    /\ BackupStatuses \in [Servers -> {"absent", "true", "false"}]
    /\ serverInfoFile = UpdateServerStatus
    /\ backupLockFile = UpdateBackupStatus
    /\ clock = 1
    /\ th = [t \in Threads |-> IdleFrame]
    /\ timers = [s \in Servers |-> NoTimer]
    /\ MonitorInit
    /\ NoScripts
    /\ NoReports

NextPoll ==
    \/ BeginPoll(1)
    \/ PollStep(1)
    \/ \E s \in Servers : Free(1) /\ SessionExits(s)

SpecPoll == InitPoll /\ [][NextPoll]_vars

\* Backups asked for in both ways, one after the other: Create called with
\* one name, and the mcctl backup create command.
NextBackupCommand ==
    \/ BeginCreate(1, OneName)
    \/ CreateStep(1)
    \/ McctlBackupCreate(1, ArgLists)

InitBackupCommand == InitFleet /\ NoReports

SpecBackupCommand == InitBackupCommand /\ [][NextBackupCommand]_vars

\* The two callers of Kill, one call after the other: Stop commands for one
\* server and Recover calls; sessions end and time passes.
NextKill ==
    \/ BeginStop(1, OneName)
    \/ StopStep(1)
    \/ BeginRecover(1, Servers, TRUE)
    \/ RecoverStep(1)
    \/ \E s \in Servers : SessionExits(s)
    \/ \E s \in Servers : ReportAges(s)
    \/ \E s \in Servers : ResetRecovering(s)

\* Every file of the crash-reports directories has a time in its name; the
\* kill and the launch of a session can fail.
InitKill ==
    /\ InitReports
    /\ badReport = [s \in Servers |-> "none"]
    /\ faults = {"kill", "launch"}

SpecKill == InitKill /\ [][NextKill]_vars

\* The reconciliation loop: ticks of handleCrash one after the other; between
\* two ticks sessions end and servers write crash reports; time passes.
NextTick ==
    \/ BeginTick(1, TRUE)
    \/ TickStep(1)
    \/ \E s \in Servers : Free(1) /\ SessionExits(s)
    \/ \E s \in Servers : Free(1) /\ CrashReport(s)
    \/ \E s \in Servers : ReportAges(s)
    \/ \E s \in Servers : ResetRecovering(s)

\* No subprocess fails: every launch and every kill succeeds.
InitTick == InitReports /\ faults = {}

SpecTick == InitTick /\ [][NextTick]_vars

\* The reconciliation loop for ever: recoverServers calls handleCrash at
\* every tick of its ticker, and a call that began runs to its return.
NextLive ==
    \/ BeginTick(1, FALSE)
    \/ TickStep(1)
    \/ \E s \in Servers : Free(1) /\ SessionExits(s)
    \/ \E s \in Servers : ReportAges(s)
    \/ \E s \in Servers : ResetRecovering(s)

SpecLive ==
    /\ InitTick
    /\ [][NextLive]_vars
    /\ WF_vars(BeginTick(1, FALSE))
    /\ WF_vars(TickStep(1))

\* Recover called for ever by one goroutine, as the reconciliation loop
\* does, while time passes: a call that began runs to its return, a report
\* ages, a goroutine that sleeps recoveryTime wakes up.
NextRecoverFair ==
    \/ BeginRecover(1, Servers, FALSE)
    \/ RecoverStep(1)
    \/ \E s \in Servers : ReportAges(s)
    \/ \E s \in Servers : ResetRecovering(s)

SpecRecoverFair ==
    /\ InitRecover
    /\ [][NextRecoverFair]_vars
    /\ \A s \in Servers : WF_vars(BeginRecover(1, {s}, FALSE))
    /\ WF_vars(RecoverStep(1))
    /\ \A s \in Servers : WF_vars(ReportAges(s))
    /\ \A s \in Servers : WF_vars(ResetRecovering(s))

\* The manager with one server directory: "a" may be registered and may
\* run.
InitMonitor ==
    /\ InitFleet
    /\ NoReports
    /\ ~Registered("b")
    /\ BackupStatuses = [s \in Servers |-> "true"]

\* The two listeners serve connections; the operations the handlers call
\* run in the goroutines of their connections.
NextMonitor ==
    \/ \E c \in Threads, l \in Listeners : Accept(c, l)
    \/ AcceptFails
    \/ \E c \in Threads : ReadConn(c)
    \/ \E c \in Threads : Dispatch(c)
    \/ \E c \in Threads : Respond(c)
    \/ \E c \in Threads : Up /\ StartStep(c)
    \/ \E c \in Threads : Up /\ StopStep(c)
    \/ \E c \in Threads : Up /\ CreateStep(c)
    \/ \E s \in Servers : Up /\ SessionExits(s)

SpecMonitor == InitMonitor /\ [][NextMonitor]_vars

\* Two command connections run Start concurrently.
NextConc ==
    \/ \E t \in Threads : th[t].pc = "idle" /\ BeginStart(t, ArgLists)
    \/ \E t \in Threads : StartStep(t)

SpecConc == Init /\ [][NextConc]_vars

\* The extra-scripts loop alone: the ticks of runExtraScripts follow one
\* another in its goroutine, time passes between them, and the operator
\* edits the descriptors.
InitScripts ==
    /\ ServerStatuses = [s \in Servers |->
            [Name |-> s, Port |-> FleetPort(Servers, s), Recovering |-> FALSE,
             ShouldRun |-> TRUE, StartTime |-> 1]]
    /\ properties = [s \in Servers |-> FleetPort(Servers, s)]
    /\ running \in SUBSET Servers
    /\ BackupStatuses = [s \in Servers |-> "true"]
    /\ serverInfoFile = UpdateServerStatus
    /\ backupLockFile = UpdateBackupStatus
    /\ clock = 1
    /\ th = [t \in Threads |-> IdleFrame]
    /\ crash = [s \in Servers |-> "none"]
    /\ badReport = [s \in Servers |-> "none"]
    /\ timers = [s \in Servers |-> NoTimer]
    /\ faults = {"unmarshal", "run"}
    /\ MonitorInit
    /\ currentConfigurations = [s \in Servers |-> NoConfiguration]
    /\ scriptsYaml \in [Servers -> YamlFiles]
    /\ scriptsYaml["b"] = NoYaml
    /\ now = 3
    /\ executed = {}

NextScripts ==
    \/ BeginScripts(1)
    \/ ScriptsStep(1)
    \/ Free(1) /\ TimePasses
    \/ Free(1) /\ EditYaml("a")

SpecScripts == InitScripts /\ [][NextScripts]_vars

\* Two goroutines of the manager run operations on the store mutexes in any
\* interleaving.
NextLocks ==
    \/ \E t \in Threads : BeginLocked(t)
    \/ \E t \in Threads : LockStep(t)
    \/ \E t \in Threads : LockReturn(t)

SpecLocks == Init /\ [][NextLocks]_vars

\* An operator stops "a" while a backup of "a" is in flight: the one Create
\* of the behaviour has archived and uploaded "a" when Stop is called.
ArchiveTaken(t) == th[t].op = "Create" /\ th[t].pc = "cb_final"

NextStopBackup ==
    \/ clock = 1 /\ BeginCreate(2, {<<"a">>})
    \/ CreateStep(2)
    \/ ArchiveTaken(2) /\ BeginStop(1, {<<"a">>})
    \/ StopStep(1)
    \/ \E s \in Servers : SessionExits(s)

InitStopBackup ==
    /\ InitFleet
    /\ NoReports
    /\ Registered("a") /\ ~Registered("b")
    /\ "a" \in running

SpecStopBackup == InitStopBackup /\ [][NextStopBackup]_vars

\* ------------------------------------------------------------------ claims

Ports == {ServerStatuses[s].Port : s \in {u \in Servers : Registered(u)}}

AllIn(f, set) == \A k \in DOMAIN f.servers : f.servers[k] \in set

\* C1: after a sequence of Start calls that do not overlap, on names that
\* were not registered, every name of a call that returned without error
\* has an entry, the ports of the entries are pairwise distinct and every
\* port is at least the base port 25565.
C1_PortUniquenessSequential ==
    /\ \A s \in Servers :
          Registered(s) => ServerStatuses[s].Port >= baseServerPort
    /\ \A s, u \in Servers :
          (s # u /\ Registered(s) /\ Registered(u))
              => ServerStatuses[s].Port # ServerStatuses[u].Port
    /\ (th[1].op = "Start" /\ th[1].pc = "done" /\ th[1].err = "nil")
          => AllIn(th[1], {s \in Servers : Registered(s)})

\* C1 witness: both names were started, the second by a Start that returned
\* without error, and hold the ports 25565 and 25566.
C1_Witness ==
    /\ th[1].op = "Start" /\ th[1].pc = "done" /\ th[1].err = "nil"
    /\ \A s \in Servers : Registered(s)
    /\ Ports = {baseServerPort, baseServerPort + 1}
    /\ \E s \in Servers : th[1].newBranch[s] = 1

\* C2: of two concurrent Start calls for one unregistered name at most one
\* takes the new-server branch (port assignment, properties rewrite, new
\* entry).
C2_SameNameRace ==
    \A s \in Servers : th[1].newBranch[s] + th[2].newBranch[s] <= 1

\* C3: in every reachable state, no two entries with a non-zero port share
\* the port, also when Start calls for different names interleave.
C3_PortUniquenessConcurrent ==
    \A s, u \in Servers :
        (/\ s # u
         /\ Registered(s) /\ Registered(u)
         /\ ServerStatuses[s].Port # 0)
            => ServerStatuses[s].Port # ServerStatuses[u].Port

\* C4: a Start all of whose names are in the running set launches no
\* session, leaves the entries as they were, does not write the status file
\* and returns no error.
C4_IdempotentStart ==
    LET f == th[1] IN
    (f.op = "Start" /\ f.pc = "done" /\ AllIn(f, f.runningServers))
        => /\ f.launched = NoCount
           /\ ServerStatuses = f.pre.ServerStatuses
           /\ ~f.persisted
           /\ serverInfoFile = f.pre.serverInfoFile
           /\ f.err = "nil"

\* C4 witness: a Start(["a"]) has returned that found "a" running; "a" is
\* meant to run and the status file holds the map.
C4_Witness ==
    LET f == th[1] IN
    /\ f.op = "Start" /\ f.pc = "done" /\ f.servers = <<"a">>
    /\ "a" \in f.runningServers
    /\ ServerStatuses["a"].ShouldRun
    /\ serverInfoFile = UpdateServerStatus

\* C5: when two Recover calls for one server run concurrently while a crash
\* report younger than the recovery window exists, at most one of them
\* recovers the server (sets Recovering, kills and starts it again); the
\* other does nothing.
C5_RecoverySuppression ==
    \A s \in Servers : th[1].recovered[s] + th[2].recovered[s] <= 1

\* The servers a tick finds drifted: registered, meant to run, no session.
Drifted(f, s) ==
    /\ f.pre.ServerStatuses[s] # NoEntry
    /\ f.pre.ServerStatuses[s].ShouldRun
    /\ s \notin f.pre.running

\* C9: in one tick of handleCrash no server is launched twice, a server that
\* was running or had ShouldRun false when the tick began is not launched,
\* and when the tick has returned every server that was registered with
\* ShouldRun true and not running has been launched exactly once.
C9_TickStartsDriftedOnce ==
    LET f == th[1]
    IN  f.op = "handleCrash" =>
          \A s \in Servers :
             /\ f.launched[s] <= 1
             /\ ~Drifted(f, s) => f.launched[s] = 0
             /\ f.pc = "done" /\ Drifted(f, s) => f.launched[s] = 1

\* C10: with handleCrash called for ever, every call running to its return
\* and every launch succeeding, a registered server with ShouldRun true
\* that is not running is eventually in the running set.
C10_ConvergenceToIntent ==
    \A s \in Servers :
       (Registered(s) /\ ServerStatuses[s].ShouldRun /\ s \notin running)
          ~> (s \in running)

\* C11: no goroutine holds ServerStatusesMu or BackupStatusesMu while it
\* makes a subprocess call, a player-count query or file I/O on a
\* server.properties file.
C11_NoLockAcrossBlockingIO ==
    \A t \in Threads : BlockingUnderLock(th[t]) = {}

\* C12: every access to ServerStatuses is made under ServerStatusesMu, so
\* that no goroutine is about to read or range over the map without the
\* mutex while another is about to insert into it.
C12_MapAccessUnderMutex ==
    \A t, u \in Threads :
       t # u => ~(UnlockedRead(th[t]) /\ MapWrite(th[u]))

\* C13: the eligibility of a server goes from true to false only in the
\* last step of a backup of that server whose upload succeeded and whose
\* player-count query answered, without error, that nobody is online.
C13_ClearedOnlyBySuccessfulBackup ==
    [][\A s \in Servers :
         (BackupStatuses[s] = "true" /\ BackupStatuses'[s] = "false") =>
            \E t \in Threads :
               /\ th[t].pc = "cb_final"
               /\ th[t].servers[th[t].cur] = s
               /\ th[t].uploaded[s] >= 1
               /\ th'[t].online = [n |-> 0, err |-> FALSE]]_vars

\* C14: whenever Recovering is true for a server it is eventually false
\* again, on every path of Recover, the failed kill included.
C14_RecoveringAlwaysCleared ==
    \A s \in Servers :
       (Registered(s) /\ ServerStatuses[s].Recovering)
          ~> (Registered(s) /\ ~ServerStatuses[s].Recovering)

\* A connection whose goroutine has ended.
Served(c) == conns[c].pc \in {"closed", "answered"}

\* C15: whatever bytes were read on a connection, the handler writes exactly
\* one Response on it, and the dispatch never ends the process.
C15_OneResponsePerRequest ==
    /\ process # "panic_dispatch"
    /\ \A c \in Threads :
          /\ Len(conns[c].resp) <= 1
          /\ (Served(c) /\ conns[c].readOK) => Len(conns[c].resp) = 1

\* The commands a listener supports.
Supported(l, fields) ==
    /\ Len(fields) >= 2
    /\ IF l = "local"
       THEN fields[1] = "server" /\ fields[2] \in {"stop", "start", "restart"}
       ELSE \/ fields[1] = "backup" /\ fields[2] = "create"
            \/ fields[1] = "server" /\ fields[2] = "info"

\* C16: on both listeners a Response with Status 0 is written only for a
\* supported command that was executed and returned no error.
C16_ProtocolErrorsNonZero ==
    \A c \in Threads :
       \A k \in DOMAIN conns[c].resp :
          conns[c].resp[k] = StatusOK =>
             /\ Supported(conns[c].lc, Fields(conns[c].req))
             /\ th[c].err = "nil"

\* C17: the goroutine that serves a remote connection never runs Start,
\* Stop, Restart or Kill, whatever the request, and no step of it changes
\* the server map (so no ShouldRun) or ends a session.
C17_RemoteCommandSubset ==
    /\ [](\A c \in Threads :
            conns[c].lc = "remote" =>
               th[c].op \in {"idle", "Create"} /\ th[c].kills = NoCount)
    /\ [][\A c \in Threads :
            (conns[c].lc = "remote" /\ th'[c] # th[c]) =>
               ServerStatuses' = ServerStatuses /\ running' = running]_vars

\* C17 witness: the remote request "server stop a" was answered while "a"
\* runs and is meant to run.
C17_Witness ==
    \E c \in Threads :
       /\ conns[c].lc = "remote"
       /\ Fields(conns[c].req) = <<"server", "stop", "a">>
       /\ conns[c].pc = "answered"
       /\ "a" \in running
       /\ ServerStatuses["a"].ShouldRun

\* C18: a failed read on a connection is answered on that connection and
\* the listener that accepted it goes on listening.
C18_FailedConnectionIsolated ==
    \A c \in Threads :
       (Served(c) /\ ~conns[c].readOK) =>
          /\ Len(conns[c].resp) = 1
          /\ lc[conns[c].lc] = "listening"

\* C19: when the port write or the launch fails for one name of a Start,
\* every other listed name that was not running is still launched: of the
\* listed names that were not running at most the failed one has no launch.
C19_StartFailureIsolation ==
    LET f == th[1]
    IN  (f.op = "Start" /\ f.pc = "done" /\ f.err # "nil") =>
          Cardinality({s \in Servers :
              /\ \E k \in DOMAIN f.servers : f.servers[k] = s
              /\ s \notin f.runningServers
              /\ f.launched[s] = 0}) <= 1

\* C20: a failure of the archive or of the upload of one server does not
\* end Create; when Create has returned every listed server that was
\* eligible has had its backup begun, and the error is nil exactly when
\* every backup that began was uploaded.
C20_BackupFailureIsolation ==
    LET f == th[1]
    IN  f.op = "Create" =>
          /\ ~(f.pc = "panic" /\ f.err = "tempfile")
          /\ f.pc = "done" =>
                /\ \A k \in DOMAIN f.servers :
                      (f.force \/ f.pre.BackupStatuses[f.servers[k]] # "false")
                         => f.notified[f.servers[k]] >= 1
                /\ f.err = "nil" <=>
                      \A s \in Servers : f.notified[s] = f.uploaded[s]

\* C6: after Stop has stopped a running server (it was in the running set
\* and the stop command was sent; it left by itself or was force-killed),
\* its backup eligibility is true, whatever it was before the call.
C6_StopThenEligible ==
    LET f == th[1] IN
    (f.op = "Stop" /\ f.pc = "done")
        => \A j \in DOMAIN f.g :
              (f.servers[j] \in f.runningServers /\ f.g[j].pc # "sendFailed")
                  => BackupStatuses[f.servers[j]] = "true"

\* C6 witness: Stop(["a"]) has returned, "a" was running and ineligible
\* before the call and has left the running set.
C6_Witness ==
    LET f == th[1] IN
    /\ f.op = "Stop" /\ f.pc = "done" /\ f.servers = <<"a">>
    /\ "a" \in f.runningServers
    /\ f.pre.BackupStatuses["a"] = "false"
    /\ f.g[1].pc = "stopped"
    /\ "a" \notin running

\* C7: a goroutine of Stop issues Kill at most once, and only when all 15
\* polls have elapsed; if the server was in the running set at every look,
\* Kill is issued exactly once.
C7_ForceKillFallback ==
    LET f == th[1] IN
    f.op = "Stop" =>
        \A j \in DOMAIN f.g :
            /\ f.g[j].kills <= 1
            /\ f.g[j].pc \in {"g_kill", "g_quit"}
                  => f.g[j].counter = killServerTimeout
            /\ f.g[j].kills = 1 => f.g[j].counter = killServerTimeout
            /\ (f.g[j].pc = "stopped" /\ ~f.g[j].everGone)
                  => f.g[j].kills = 1

\* C7 witness: the goroutine for "a" has seen "a" at every look, has killed
\* it once after the 15th poll, and is over.
C7_Witness ==
    LET f == th[1] IN
    /\ f.op = "Stop" /\ f.servers = <<"a">>
    /\ f.g # <<>>
    /\ f.g[1].pc = "stopped" /\ ~f.g[1].everGone
    /\ f.g[1].kills = 1 /\ f.g[1].counter = killServerTimeout

Over(f, j) == f.pc \in {"create_wait", "done"} /\ j \notin f.pending /\ j # f.cur

\* C8: a Create without force does nothing for a server whose stored
\* eligibility is false (no notify, no archive or upload, its flag is as it
\* was), and when that is so for every listed name both maps and the backup
\* file are as they were; a Create with force performs the backup of every
\* listed server whatever the stored flag.
C8_BackupGating ==
    LET f == th[1]
        gated(s) == ~f.force /\ f.pre.BackupStatuses[s] = "false"
    IN  f.op = "Create" =>
          /\ \A j \in DOMAIN f.servers :
                gated(f.servers[j])
                    => /\ f.notified[f.servers[j]] = 0
                       /\ f.uploaded[f.servers[j]] = 0
                       /\ BackupStatuses[f.servers[j]] = "false"
          /\ (\A j \in DOMAIN f.servers : gated(f.servers[j]))
                => /\ BackupStatuses = f.pre.BackupStatuses
                   /\ ServerStatuses = f.pre.ServerStatuses
                   /\ backupLockFile = f.pre.backupLockFile
                   /\ ~f.persisted
          /\ f.force
                => \A j \in DOMAIN f.servers :
                      Over(f, j) => f.notified[f.servers[j]] >= 1

\* C8 witness: Create(false, ["a"]) has returned where "a" was stored
\* ineligible, after which nothing was done.
C8_Witness ==
    LET f == th[1] IN
    /\ f.op = "Create" /\ f.pc = "done" /\ ~f.force
    /\ f.servers = <<"a">>
    /\ f.pre.BackupStatuses["a"] = "false"
    /\ "a" \in running
    /\ f.notified["a"] = 0

\* C21: Create without force over ["a", "b"], where the stored eligibility
\* of "a" is true and that of "b" is false, runs one archive and upload,
\* for "a", and none for "b"; the call comes to its return, and when the
\* upload for "a" succeeded the returned error is nil.
C21_SelectiveBackup ==
    LET f == th[1]
    IN  (/\ f.op = "Create" /\ ~f.force /\ f.args = <<"a", "b">>
         /\ f.pre.BackupStatuses["a"] = "true"
         /\ f.pre.BackupStatuses["b"] = "false")
          => /\ f.notified["b"] = 0 /\ f.uploaded["b"] = 0
             /\ f.notified["a"] <= 1 /\ f.uploaded["a"] <= 1
             /\ ~(f.pc = "panic" /\ f.uploaded["a"] = 1)
             /\ f.pc = "done" =>
                   /\ f.notified["a"] = 1
                   /\ f.uploaded["a"] = 1 => f.err = "nil"

\* The shape of an object-storage URL: the scheme gs://, then a bucket.
ObjectStorageURL(dest) == Len(dest) >= 2 /\ dest[1] = "gs://"

\* C22: a Create whose destination has not the shape of an object-storage
\* URL fails as a whole before any work: no server is notified, saved,
\* archived or uploaded, no status map is changed, and the call returns an
\* error.
C22_DestinationValidatedFirst ==
    LET f == th[1]
    IN  (f.op = "Create" /\ ~ObjectStorageURL(f.dest))
          => /\ f.notified = NoCount
             /\ f.uploaded = NoCount
             /\ BackupStatuses = f.pre.BackupStatuses
             /\ ServerStatuses = f.pre.ServerStatuses
             /\ f.pc # "panic"
             /\ f.pc = "done" => f.err # "nil"

\* What the claims on persistence compare: ShouldRun and Port of an entry.
IntentAndPort(map) ==
    [s \in Servers |->
        IF map[s] = NoEntry THEN <<>>
        ELSE <<map[s].ShouldRun, map[s].Port>>]

\* The map a restart of the manager would load from the server file.
Loaded == initServerStatus([s \in Servers |-> NoEntry], serverInfoFile)

\* C23: when Start has returned, with or without an error, after it changed
\* ShouldRun or Port of some entry in memory, the server-status file holds
\* the same ShouldRun and Port for every entry as the map in memory.
C23_PersistenceFollowsMutation ==
    LET f == th[1]
    IN  (/\ f.op = "Start" /\ f.pc = "done"
         /\ IntentAndPort(ServerStatuses)
               # IntentAndPort(f.pre.ServerStatuses))
          => IntentAndPort(Loaded) = IntentAndPort(ServerStatuses)

\* The fields of the entries a round trip has to keep, key by key.
StatusFields(map) ==
    [s \in Servers |->
        IF map[s] = NoEntry THEN <<>>
        ELSE <<map[s].Name, map[s].ShouldRun, map[s].Port,
               map[s].StartTime>>]

C25_PortStability ==
    [][\A s \in Servers :
          Registered(s) =>
             /\ ServerStatuses'[s] # NoEntry
             /\ ServerStatuses'[s].Port = ServerStatuses[s].Port
             /\ properties'[s] = properties[s]]_vars

\* One step of Kill's critical section in Stop, for the goroutine j.
OperatorKill(j) ==
    /\ j \in DOMAIN th[1].g
    /\ th[1].g[j].pc = "g_kill"
    /\ j \in DOMAIN th'[1].g
    /\ th'[1].g[j].pc = "g_quit"

\* The step of Recover that calls Kill.
RecoveryKill == th[1].pc = "rec_kill" /\ th'[1].pc # "rec_kill"

C27_KillOnlyWhenStillPresent ==
    LET f == th[1] IN
    f.op = "Stop" =>
        \A j \in DOMAIN f.g :
            f.g[j].pc \in {"g_kill", "g_quit"}
                => f.servers[j] \in f.g[j].currentServers

\* C28: when a tick of handleCrash has returned, with or without an error
\* of Recover, every server that was registered with ShouldRun true and was
\* not running when the tick began has been started in the tick.
C28_StartsIndependentOfRecover ==
    LET f == th[1]
    IN  (f.op = "handleCrash" /\ f.pc = "done")
          => \A s \in Servers : Drifted(f, s) => f.launched[s] >= 1

C30_PollerPersistsIffChanged ==
    LET f == th[1]
    IN  (f.op = "handleStatus" /\ f.pc = "done")
          => /\ (\E s \in Servers :
                    /\ f.pre.BackupStatuses[s] = "false"
                    /\ BackupStatuses[s] = "true")
                  => /\ f.persisted
                     /\ backupLockFile = UpdateBackupStatus
             /\ BackupStatuses = f.pre.BackupStatuses
                  => /\ ~f.persisted
                     /\ backupLockFile = f.pre.backupLockFile

\* C31: a cycle of handleStatus queries the player count of exactly the
\* servers that are registered, have ShouldRun true and are in the running
\* set; a running session without an entry is passed over without a fault,
\* and the cycle comes to the other servers of the list.
C31_PollerScope ==
    LET f == th[1]
    IN  f.op = "handleStatus" =>
          /\ f.pc # "panic"
          /\ f.pc = "done" =>
                f.polled = {s \in f.runningServers :
                               /\ f.pre.ServerStatuses[s] # NoEntry
                               /\ f.pre.ServerStatuses[s].ShouldRun}

\* C32: when createBackup has archived and uploaded a server that has no
\* entry in ServerStatuses, it completes without a fault, and once its
\* goroutine is over the eligibility of that server is false.
C32_BackupOfUnregistered ==
    LET f == th[1]
    IN  f.op = "Create" =>
          \A j \in DOMAIN f.servers :
             (/\ f.servers = <<f.servers[j]>>
              /\ f.pre.ServerStatuses[f.servers[j]] = NoEntry
              /\ f.uploaded[f.servers[j]] >= 1)
                => /\ f.pc # "panic"
                   /\ Over(f, j) => BackupStatuses[f.servers[j]] = "false"

\* C33: a backup asked for without force for a server that has no entry in
\* BackupStatuses is made: Create called directly begins the backup of the
\* server, and the mcctl backup create command puts the server into the
\* request it sends to the manager.
C33_UnseenDefaultsToEligible ==
    LET f == th[1]
        Unseen(s) == /\ f.pre.BackupStatuses[s] = "absent"
                     /\ \A m \in f.pre.backupLockFile : m[1] # s
    IN  /\ (f.op = "Create" /\ ~f.force) =>
              \A j \in DOMAIN f.servers :
                 (Unseen(f.servers[j]) /\ Over(f, j))
                    => f.notified[f.servers[j]] >= 1
        /\ (f.op = "mcctl backup create" /\ ~f.force) =>
              \A j \in DOMAIN f.args :
                 Unseen(f.args[j])
                    => \E k \in DOMAIN f.startServers :
                          f.startServers[k] = f.args[j]

\* The time of the last execution of a script of a server.
LastExecution(server, name) ==
    LET times == {e[3] : e \in {x \in executed : x[1] = server /\ x[2] = name}}
    IN  CHOOSE m \in times : \A u \in times : u <= m

\* C34: extra-script cadence: across the ticks of the extra scripts for a
\* running server, a script with interval I that was executed at time t is
\* not executed again before t + I, and the time of its last execution is
\* kept in the stored configuration between the ticks.
C34_ScriptCadence ==
    /\ \A e1 \in executed, e2 \in executed :
          (e1[1] = e2[1] /\ e1[2] = e2[2] /\ e1[3] < e2[3])
              => \A I \in Intervals : e2[3] >= e1[3] + I
    /\ \A server \in Servers :
          LET scripts == currentConfigurations[server].Scripts
          IN  \A i \in DOMAIN scripts :
                 (\E e \in executed : e[1] = server /\ e[2] = scripts[i].Name)
                    => scripts[i].LastRun = LastExecution(server, scripts[i].Name)

\* C35: a missing extra-scripts descriptor is tolerated: ExtraScripts for a
\* running server without scripts.yaml and without a configuration loaded
\* before runs no script, returns no error and does not fault, and the tick
\* goes on to the other running servers.
C35_MissingDescriptorTolerated ==
    \A t \in Threads :
       LET f == th[t]
       IN  f.op = "handleExtraScripts" =>
              /\ f.pc # "panic"
              /\ \A s \in f.visited :
                    (~scriptsYaml[s].exists /\ ~currentConfigurations[s].ok)
                        => /\ s \notin f.failed
                           /\ \A e \in executed : e[1] # s
              /\ f.pc = "done" => f.visited = f.runningServers

\* A step that launches a session for the server.
Launches(s) ==
    \E t \in Threads : th'[t].launched[s] > th[t].launched[s]

\* C36: at most one session per server: under any interleaving of Start
\* calls and for any argument list, also one that names a server twice, a
\* server that has a running or just-launched session is never launched a
\* second time.
C36_OneSessionPerServer ==
    [][\A s \in Servers : Launches(s) => s \notin running]_vars

\* C37: recovery respects the operator's intent: a tick of the
\* reconciliation loop that finds a registered server with ShouldRun false
\* (stopped by the operator), also one with a crash report younger than the
\* recovery window, does not launch that server and leaves its ShouldRun
\* false.
C37_RecoveryRespectsIntent ==
    LET f == th[1]
    IN  f.op = "handleCrash" =>
          \A s \in Servers :
             (/\ f.pre.ServerStatuses[s] # NoEntry
              /\ ~f.pre.ServerStatuses[s].ShouldRun)
                => /\ f.launched[s] = 0
                   /\ ~ServerStatuses[s].ShouldRun

AtLock(f) == f.pc = "locks" /\ f.events # <<>> /\ Head(f.events)[1] = "Lock"

\* The goroutine can take its next step.
CanStep(t) ==
    /\ th[t].pc = "locks"
    /\ AtLock(th[t]) =>
          \A u \in Threads : Head(th[t].events)[2] \notin th[u].held

\* C39: no deadlock on the store mutexes: on every path of the operations an
\* acquired mutex is released before the return, no goroutine is at a Lock
\* call while it holds a store mutex, only a held mutex is unlocked, and
\* while the process is up and a goroutine is inside an operation some
\* goroutine can take a step.
C39_NoLockDeadlock ==
    /\ \A t \in Threads :
          LET f == th[t]
          IN  /\ (f.pc = "done" \/ (f.pc = "locks" /\ f.events = <<>>))
                    => f.held = {}
              /\ AtLock(f) => f.held = {}
              /\ (/\ f.pc = "locks" /\ f.events # <<>>
                  /\ Head(f.events)[1] = "Unlock")
                    => Head(f.events)[2] \in f.held
    /\ (Up /\ \E t \in Threads : th[t].pc = "locks")
          => \E t \in Threads : CanStep(t)

\* C39 witness: handleStatus is inside a critical section on
\* ServerStatusesMu while Start, holding nothing, waits at its Lock call for
\* the same mutex.
C39_Witness ==
    /\ th[1].op = "handleStatus" /\ th[1].pc = "locks"
    /\ "ServerStatusesMu" \in th[1].held
    /\ th[2].op = "Start" /\ AtLock(th[2])
    /\ Head(th[2].events)[2] = "ServerStatusesMu"
    /\ ~CanStep(2)

\* C40: the backup trigger of Stop is not lost to a backup in flight: when
\* Stop has set the eligibility of "a" to true while a Create for "a" was in
\* flight with its archive taken, and both have returned, the eligibility of
\* "a" is true.
C40_StopTriggerNotLost ==
    (/\ th[1].op = "Stop" /\ th[1].pc = "done"
     /\ th[1].g[1].pc = "stopped"
     /\ th[2].op = "Create" /\ th[2].pc = "done"
     /\ th[2].uploaded["a"] >= 1)
       => BackupStatuses["a"] = "true"

====
